---------------------------- MODULE Spec2Model ----------------------------
(***************************************************************************)
(* Model of the runtime logging subsystem in                               *)
(* wiring/src/spark_wiring_logging.cpp: the category filter tree          *)
(* (spark::detail::LogFilter), the default handler and stream factories,   *)
(* and the handler manager (spark::LogManager).                            *)
(*                                                                         *)
(* C strings are sequences of one-character strings; the null pointer is   *)
(* NullStr.  Objects (handlers, streams) are identified by allocation, not *)
(* by address: a created object gets a number that no live object has.    *)
(***************************************************************************)
EXTENDS Integers, Sequences, FiniteSets, TLC

(***************************************************************************)
(* Bounds of the model.                                                    *)
(***************************************************************************)
\* Number of factory-created objects (handlers, streams) alive at a time.
MaxObj == 3

(***************************************************************************)
(* Logging levels (LogLevel).  The header that sets the numbers is not     *)
(* part of the sources; the order is the documented one, ALL the most and  *)
(* NONE the least permissive threshold.                                    *)
(***************************************************************************)
LOG_LEVEL_ALL == 1
LOG_LEVEL_TRACE == 1
LOG_LEVEL_INFO == 30
LOG_LEVEL_WARN == 40
LOG_LEVEL_ERROR == 50
LOG_LEVEL_PANIC == 60
LOG_LEVEL_NONE == 70

\* The severities a message can carry.
MessageLevels ==
    {LOG_LEVEL_TRACE, LOG_LEVEL_INFO, LOG_LEVEL_WARN, LOG_LEVEL_ERROR, LOG_LEVEL_PANIC}

(***************************************************************************)
(* Strings.                                                                *)
(***************************************************************************)
\* The null pointer (const char*)0; no character is "null".
NullStr == <<"null">>

Dot == "."

\* Character codes, as strncmp() compares them.
Code(c) ==
    CASE c = "." -> 46
      [] c = "a" -> 97
      [] c = "b" -> 98
      [] c = "c" -> 99
      [] c = "d" -> 100
      [] c = "x" -> 120
      [] c = "z" -> 122

Min(a, b) == IF a < b THEN a ELSE b

\* strncmp(s1, s2, n) for strings that hold at least n characters.
strncmp(s1, s2, n) ==
    LET d == {i \in 1..n : s1[i] # s2[i]}
    IN  IF d = {} THEN 0
        ELSE LET i == CHOOSE k \in d : \A j \in d : k <= j
             IN  IF Code(s1[i]) < Code(s2[i]) THEN -1 ELSE 1

\* strchrnul(s, c): the offset of the first c in s, or of the terminating NUL.
strchrnul(s, c) ==
    LET d == {i \in 1..Len(s) : s[i] = c}
    IN  IF d = {} THEN Len(s)
        ELSE (CHOOSE k \in d : \A j \in d : k <= j) - 1

(***************************************************************************)
(* nextSubcategoryName(category, size): the next '.'-separated name.       *)
(* Returns the name (NullStr for nullptr), its size and the advanced       *)
(* category pointer.                                                       *)
(***************************************************************************)
nextSubcategoryName(category) ==
    LET s == strchrnul(category, Dot)
        size == s
    IN  IF size > 0
        THEN [name |-> SubSeq(category, 1, size),
              size |-> size,
              category |-> SubSeq(category,
                                  IF s < Len(category) THEN s + 2 ELSE s + 1,
                                  Len(category))]
        ELSE [name |-> NullStr, size |-> size, category |-> category]

(***************************************************************************)
(* spark::detail::LogFilter.  The tree is kept flat: nodes is the store of *)
(* all Node objects, roots and each node's field nodes are the Array<Node> *)
(* of the source, holding positions in the store.                          *)
(***************************************************************************)
\* Node(name, size): level is -1 (not specified), no children.
Node(name, size) == [name |-> name, size |-> size, level |-> -1, nodes |-> <<>>]

\* The Array<Node> a Node pointer set refers to: 0 is the root array.
NodesAt(t, p) ==
    LET idx == IF p = 0 THEN t.roots ELSE t.nodes[p].nodes
    IN  [i \in 1..Len(idx) |-> t.nodes[idx[i]]]

\* The comparator with the tie of an equal common prefix broken the other way:
\* return node.size > value.second at line 436.
nodeLessLongerFirst(node, name, size) ==
    LET cmp == strncmp(node.name, name, Min(node.size, size))
    IN  IF cmp = 0
        THEN IF node.size = size
             THEN [less |-> FALSE, found |-> TRUE]
             ELSE [less |-> node.size > size, found |-> FALSE]
        ELSE [less |-> cmp < 0, found |-> FALSE]

\* The comparator handed to std::lower_bound: less, and whether it saw a match.
nodeLess(node, name, size) ==
    LET cmp == strncmp(node.name, name, Min(node.size, size))
    IN  IF cmp = 0
        THEN IF node.size = size
             THEN [less |-> FALSE, found |-> TRUE]
             ELSE [less |-> node.size < size, found |-> FALSE]
        ELSE [less |-> cmp < 0, found |-> FALSE]

\* std::lower_bound over arr[first .. first+len), offsets counted from 0.
RECURSIVE lower_bound(_, _, _, _, _, _)
lower_bound(arr, first, len, name, size, found) ==
    IF len = 0 THEN [index |-> first, found |-> found]
    ELSE LET half == len \div 2
             mid == first + half
             c == nodeLess(arr[mid + 1], name, size)
         IN  IF c.less
             THEN lower_bound(arr, mid + 1, len - half - 1, name, size, found)
             ELSE lower_bound(arr, first, half, name, size, found \/ c.found)

\* nodeIndex(nodes, name, size, found)
nodeIndex(arr, name, size) == lower_bound(arr, 0, Len(arr), name, size, FALSE)

\* Array::insert(index, value) on a sequence, index counted from 0.
InsertAt(s, index, v) ==
    SubSeq(s, 1, index) \o <<v>> \o SubSeq(s, index + 1, Len(s))

\* Insert a new Node(name, size) at index of the array p refers to.
InsertNode(t, p, index, name, size) ==
    LET n == Len(t.nodes) + 1
        store == Append(t.nodes, Node(name, size))
    IN  IF p = 0
        THEN [t EXCEPT !.nodes = store, !.roots = InsertAt(t.roots, index, n)]
        ELSE [t EXCEPT !.nodes = [store EXCEPT ![p].nodes = InsertAt(@, index, n)]]

\* The position in the store of element index of the array p refers to.
NodeAt(t, p, index) == IF p = 0 THEN t.roots[index + 1] ELSE t.nodes[p].nodes[index + 1]

(***************************************************************************)
(* The inner loop of the constructor for one category (lines 380-394).     *)
(* budget is the number of node insertions that still succeed (-1: all).   *)
(***************************************************************************)
RECURSIVE AddCategory(_, _, _, _, _)
AddCategory(t, p, category, lvl, budget) ==
    LET nx == nextSubcategoryName(category)
    IN  IF nx.name = NullStr THEN [t |-> t, ok |-> TRUE, budget |-> budget]
        ELSE LET r == nodeIndex(NodesAt(t, p), nx.name, nx.size)
             IN  IF ~r.found /\ budget = 0
                 THEN [t |-> t, ok |-> FALSE, budget |-> budget]
                 ELSE LET t1 == IF r.found THEN t
                                ELSE InsertNode(t, p, r.index, nx.name, nx.size)
                          b1 == IF r.found \/ budget < 0 THEN budget ELSE budget - 1
                          n == NodeAt(t1, p, r.index)
                          t2 == IF nx.category = <<>>
                                THEN [t1 EXCEPT !.nodes[n].level = lvl]
                                ELSE t1
                      IN  AddCategory(t2, n, nx.category, lvl, b1)

\* The loop over the category filters (lines 375-395).
RECURSIVE AddFilters(_, _, _, _)
AddFilters(t, filters, i, budget) ==
    IF i > Len(filters) THEN [t |-> t, ok |-> TRUE]
    ELSE IF filters[i].cat = NullStr THEN AddFilters(t, filters, i + 1, budget)
    ELSE LET r == AddCategory(t, 0, filters[i].cat, filters[i].level, budget)
         IN  IF ~r.ok THEN [t |-> t, ok |-> FALSE]
             ELSE AddFilters(r.t, filters, i + 1, r.budget)

\* LogFilter(level): no filters.
LogFilterLevel(level) == [level_ |-> level, nodes |-> <<>>, roots |-> <<>>]

\* LogFilter(level, filters) with level_(level) in place of level_(LOG_LEVEL_NONE)
\* at line 364.
LogFilterKeepsLevel(level, filters, reserveOk, budget) ==
    IF ~reserveOk THEN LogFilterLevel(level)
    ELSE LET r == AddFilters([nodes |-> <<>>, roots |-> <<>>], filters, 1, budget)
         IN  IF ~r.ok THEN LogFilterLevel(level)
             ELSE [level_ |-> level, nodes |-> r.t.nodes, roots |-> r.t.roots]

\* The loop over the category filters working on nodes_ itself: a failed
\* insertion leaves the nodes inserted so far.
RECURSIVE AddFiltersInPlace(_, _, _, _)
AddFiltersInPlace(t, filters, i, budget) ==
    IF i > Len(filters) THEN [t |-> t, ok |-> TRUE]
    ELSE IF filters[i].cat = NullStr THEN AddFiltersInPlace(t, filters, i + 1, budget)
    ELSE LET r == AddCategory(t, 0, filters[i].cat, filters[i].level, budget)
         IN  IF ~r.ok THEN [t |-> r.t, ok |-> FALSE]
             ELSE AddFiltersInPlace(r.t, filters, i + 1, r.budget)

\* LogFilter(level, filters) that builds the tree in nodes_ instead of in a
\* local array that is swapped in at the end (lines 374, 398).
LogFilterKeepsNodes(level, filters, reserveOk, budget) ==
    IF ~reserveOk THEN LogFilterLevel(LOG_LEVEL_NONE)
    ELSE LET r == AddFiltersInPlace([nodes |-> <<>>, roots |-> <<>>], filters, 1, budget)
         IN  [level_ |-> IF r.ok THEN level ELSE LOG_LEVEL_NONE,
              nodes |-> r.t.nodes, roots |-> r.t.roots]

(***************************************************************************)
(* LogFilter(level, filters).  reserveOk: cats.reserve() succeeds; budget: *)
(* the number of node insertions that succeed (-1: all of them).           *)
(***************************************************************************)
LogFilter(level, filters, reserveOk, budget) ==
    IF ~reserveOk THEN LogFilterLevel(LOG_LEVEL_NONE)
    ELSE LET r == AddFilters([nodes |-> <<>>, roots |-> <<>>], filters, 1, budget)
         IN  IF ~r.ok THEN LogFilterLevel(LOG_LEVEL_NONE)
             ELSE [level_ |-> level, nodes |-> r.t.nodes, roots |-> r.t.roots]

\* The loop of LogFilter::level that returns at the first node with a level.
RECURSIVE LevelWalkFirstLevel(_, _, _, _)
LevelWalkFirstLevel(f, p, category, level) ==
    LET nx == nextSubcategoryName(category)
    IN  IF nx.name = NullStr THEN level
        ELSE LET r == nodeIndex(NodesAt(f, p), nx.name, nx.size)
             IN  IF ~r.found THEN level
                 ELSE LET n == NodeAt(f, p, r.index)
                          node == f.nodes[n]
                      IN  IF node.level >= 0 THEN node.level
                          ELSE LevelWalkFirstLevel(f, n, nx.category, level)

\* The loop of LogFilter::level (lines 411-422).
RECURSIVE LevelWalk(_, _, _, _)
LevelWalk(f, p, category, level) ==
    LET nx == nextSubcategoryName(category)
    IN  IF nx.name = NullStr THEN level
        ELSE LET r == nodeIndex(NodesAt(f, p), nx.name, nx.size)
             IN  IF ~r.found THEN level
                 ELSE LET n == NodeAt(f, p, r.index)
                          node == f.nodes[n]
                      IN  LevelWalk(f, n, nx.category,
                                    IF node.level >= 0 THEN node.level ELSE level)

\* LogFilter::level(category)
FilterLevel(f, category) ==
    IF f.roots # <<>> /\ category # NullStr
    THEN LevelWalk(f, 0, category, f.level_)
    ELSE f.level_


(***************************************************************************)
(* A LogFilter on its own: the arguments its constructor is given, the     *)
(* object, how far its life has got, and what level() returned last.       *)
(***************************************************************************)
VARIABLES
    filterArgs,         \* [level, filters, reserveOk, budget]
    filter,             \* the LogFilter object: [level_, nodes, roots]
    filterPc,           \* "none": no such object, "args": about to be constructed,
                        \* "built": constructed
    resolved            \* [category, level]: the last call of level() and its result

filterVars == <<filterArgs, filter, filterPc, resolved>>

(***************************************************************************)
(* Handlers and their filters.  A handler is created with one of the       *)
(* configurations below: default level, category filters, and the outcome  *)
(* of the allocations made while its LogFilter is built.                   *)
(***************************************************************************)
CatA == <<"a">>
CatAB == <<"a", ".", "b">>
CatZ == <<"z">>

FilterConfigs ==
    << [level |-> LOG_LEVEL_WARN, filters |-> <<>>, reserveOk |-> TRUE, budget |-> -1],
       [level |-> LOG_LEVEL_ERROR,
        filters |-> << [cat |-> CatA, level |-> LOG_LEVEL_ALL],
                       [cat |-> CatAB, level |-> LOG_LEVEL_NONE] >>,
        reserveOk |-> TRUE, budget |-> -1],
       [level |-> LOG_LEVEL_INFO,
        filters |-> << [cat |-> CatA, level |-> LOG_LEVEL_ALL],
                       [cat |-> CatAB, level |-> LOG_LEVEL_NONE] >>,
        reserveOk |-> TRUE, budget |-> 1] >>

\* The configuration of the caller-owned handler.
UserCfg == Len(FilterConfigs)

\* The categories a log call may carry.
Categories == {NullStr, CatA, CatAB, CatZ}

\* LogHandler(level, filters): the handler's filter, built when it is constructed.
HandlerFilters ==
    [cfg \in DOMAIN FilterConfigs |->
        LET c == FilterConfigs[cfg]
        IN  LogFilter(c.level, c.filters, c.reserveOk, c.budget)]

\* LogHandler::level(category): the handler's own filter decides.
HandlerLevel(cfg, category) == FilterLevel(HandlerFilters[cfg], category)

(***************************************************************************)
(* Objects.  heap[o] describes object o: its kind ("user": the handler the *)
(* caller owns, "serial": a global serial port, "handler"/"stream":        *)
(* created by a factory, "free": no object), the factory that created it,  *)
(* a handler's filter configuration, and whether it is alive (a serial     *)
(* port: begun).                                                           *)
(***************************************************************************)
NullObj == 0
UserHandler == 1
Serial == 2
Serial1 == 3
Static == {UserHandler, Serial, Serial1}
Pool == (Cardinality(Static) + 1)..(Cardinality(Static) + MaxObj)

FreeObj == [kind |-> "free", by |-> "", cfg |-> 0, alive |-> FALSE]

\* Factories: the null pointer, the default singletons, and substitutes.
NullFactory == "nullptr"
DefaultLogHandlerFactory == "DefaultLogHandlerFactory"
DefaultOutputStreamFactory == "DefaultOutputStreamFactory"
CustomHandlerFactory == "CustomHandlerFactory"
CustomStreamFactory == "CustomStreamFactory"
HandlerFactories == {NullFactory, DefaultLogHandlerFactory, CustomHandlerFactory}
StreamFactories == {NullFactory, DefaultOutputStreamFactory, CustomStreamFactory}

\* Type names; NullType is the null pointer.
NullType == "(null)"
HandlerTypes == {"StreamLogHandler", "Bogus"}
StreamTypes == {NullType, "Serial1", "Bogus"}

\* The requests: a handler id with the filter configuration asked for.
Ids == {"", "h1", "h2"}
CfgOf(id) == IF id = "h2" THEN 2 ELSE 1

\* The calls that may fail in one addFactoryHandler: the copy of the id, a factory
\* call, an Array::append.
FailPoints == {"none", "id", "stream", "handler", "record", "active"}

\* A JSONValue: the invalid value JSONValue(), or an object with its members in
\* the order a JSONObjectIterator visits them.
NullValue == [type |-> "invalid", members |-> <<>>]
JSONObject(members) == [type |-> "object", members |-> members]
Member(name, value) == [name |-> name, value |-> value]

\* A call made by an operation: what was called, on which object, by or with
\* what, and the further arguments it was given.
EventWith(e, obj, by, args) == [e |-> e, obj |-> obj, by |-> by, args |-> args]
Event(e, obj, by) == EventWith(e, obj, by, <<>>)

Range(s) == {s[i] : i \in 1..Len(s)}

\* Array::removeOne(value): removes the first element equal to value.
RemoveOne(s, v) ==
    LET d == {i \in 1..Len(s) : s[i] = v}
    IN  IF d = {} THEN s
        ELSE LET i == CHOOSE k \in d : \A j \in d : k <= j
             IN  SubSeq(s, 1, i - 1) \o SubSeq(s, i + 1, Len(s))

\* Array::remove(i), i counted from 0.
RemoveAt(s, i) == SubSeq(s, 1, i) \o SubSeq(s, i + 2, Len(s))

\* Array::takeLast()
TakeLast(s) == SubSeq(s, 1, Len(s) - 1)

(***************************************************************************)
(* A new object: it gets a number that no object alive when the operation  *)
(* began has, and no object the operation has created (m.used).            *)
(***************************************************************************)
NewObj(m) ==
    LET free == {o \in Pool : o \notin m.used /\ m.heap[o].kind = "free"}
    IN  CHOOSE o \in free : \A q \in free : o <= q

Alloc(m, kind, by, cfg) ==
    [m EXCEPT !.heap[NewObj(m)] = [kind |-> kind, by |-> by, cfg |-> cfg, alive |-> TRUE],
              !.used = @ \cup {NewObj(m)}]

(***************************************************************************)
(* The factories.                                                          *)
(***************************************************************************)
\* LogHandlerFactory::destroyHandler(handler): deletes the handler.
destroyHandler(m, f, h) ==
    IF f = NullFactory
    THEN [m EXCEPT !.ev = Append(@, Event("nullDeref", h, f))]
    ELSE [m EXCEPT !.heap[h] = FreeObj,
                   !.ev = Append(@, Event("destroyHandler", h, f))]

\* OutputStreamFactory::destroyStream(stream): deletes the stream.
BaseDestroyStream(m, f, s) ==
    [m EXCEPT !.heap[s] = FreeObj,
              !.ev = Append(@, Event("destroyStream", s, f))]

\* DefaultOutputStreamFactory::destroyStream(stream): a serial port is ended.
DefaultDestroyStream(m, f, s) ==
    IF s = Serial
    THEN [m EXCEPT !.heap[Serial].alive = FALSE,
                   !.ev = Append(@, Event("destroyStream", s, f))]
    ELSE IF s = Serial1
    THEN [m EXCEPT !.heap[Serial1].alive = FALSE,
                   !.ev = Append(@, Event("destroyStream", s, f))]
    ELSE BaseDestroyStream(m, f, s)

destroyStream(m, f, s) ==
    IF f = NullFactory
    THEN [m EXCEPT !.ev = Append(@, Event("nullDeref", s, f))]
    ELSE IF f = DefaultOutputStreamFactory THEN DefaultDestroyStream(m, f, s)
    ELSE BaseDestroyStream(m, f, s)

\* DefaultOutputStreamFactory::getParams(params, baudRate): the loop from member
\* i on; the last "baud" member is the one that stays.
RECURSIVE getParams(_, _, _)
getParams(params, i, baudRate) ==
    IF i > Len(params.members) THEN baudRate
    ELSE getParams(params, i + 1,
                   IF params.members[i].name = "baud" THEN params.members[i].value
                   ELSE baudRate)

\* The baud rate of Serial1 when the parameters name none.
DefaultBaud == 9600

(***************************************************************************)
(* createStream(type, params) of factory f; made: whether a substitute     *)
(* factory produces a stream.  Returns the state and the stream.           *)
(***************************************************************************)
DefaultCreateStream(m, type, params) ==
    IF type = "Serial"
    THEN [m |-> [m EXCEPT !.heap[Serial].alive = TRUE,
                          !.ev = Append(@, Event("begin", Serial, "Serial"))],
          obj |-> Serial]
    ELSE IF type = "Serial1"
    THEN [m |-> [m EXCEPT !.heap[Serial1].alive = TRUE,
                          !.ev = Append(@, EventWith("begin", Serial1, "Serial1",
                                             <<getParams(params, 1, DefaultBaud)>>))],
          obj |-> Serial1]
    ELSE [m |-> m, obj |-> NullObj]

createStream(m, f, type, params, made) ==
    LET r == IF f = DefaultOutputStreamFactory THEN DefaultCreateStream(m, type, params)
             ELSE IF made
             THEN [m |-> Alloc(m, "stream", f, 0), obj |-> NewObj(m)]
             ELSE [m |-> m, obj |-> NullObj]
    IN  [m |-> [r.m EXCEPT !.ev = Append(@, EventWith("createStream", r.obj, f,
                                                      <<params>>))],
         obj |-> r.obj]

(***************************************************************************)
(* createHandler(type, level, filters, stream, params) of factory f; made: *)
(* whether the allocation succeeds (a substitute factory: whether it       *)
(* produces a handler).                                                    *)
(***************************************************************************)
DefaultCreateHandler(type, stream, made) ==
    IF type = "JSONStreamLogHandler" THEN (stream # NullObj /\ made)
    ELSE IF type = "StreamLogHandler" THEN (stream # NullObj /\ made)
    ELSE FALSE

createHandler(m, f, type, cfg, stream, params, made) ==
    LET got == IF f = DefaultLogHandlerFactory
               THEN DefaultCreateHandler(type, stream, made)
               ELSE made
        r == IF got
             THEN [m |-> Alloc(m, "handler", f, cfg), obj |-> NewObj(m)]
             ELSE [m |-> m, obj |-> NullObj]
    IN  [m |-> [r.m EXCEPT !.ev = Append(@, EventWith("createHandler", r.obj, f,
                                                      <<params>>))],
         obj |-> r.obj]

\* FactoryDeleter::operator()(ptr) of a handler scope guard.
HandlerDeleter(m, f, ptr) == IF ptr # NullObj THEN destroyHandler(m, f, ptr) ELSE m

\* FactoryDeleter::operator()(ptr) of a stream scope guard.
StreamDeleter(m, f, ptr) == IF ptr # NullObj THEN destroyStream(m, f, ptr) ELSE m

(***************************************************************************)
(* spark::LogManager.  The operators below take and return the manager's   *)
(* state m: its members activeHandlers_, factoryHandlers_,                 *)
(* handlerFactory_ and streamFactory_, the platform's callback             *)
(* registration, the heap, and ev, the calls the running operation has     *)
(* made so far.                                                            *)
(***************************************************************************)
VARIABLES
    activeHandlers_,    \* Array<LogHandler*>
    factoryHandlers_,   \* Array<FactoryHandler>: [id, handler, stream]
    handlerFactory_,    \* LogHandlerFactory*
    streamFactory_,     \* OutputStreamFactory*
    callbacks,          \* what log_set_callbacks() was last given: "set" or "null"
    heap,               \* the objects
    destructed          \* whether ~LogManager() has run

\* The manager's part of the state.
managerVars == <<activeHandlers_, factoryHandlers_, handlerFactory_, streamFactory_,
                 callbacks, heap, destructed>>

\* The threads that call the manager, and the manager's mutex.
MaxThreads == 2
Threads == 1..MaxThreads
NoThread == 0

VARIABLES
    mutex_,     \* the thread that holds the mutex, or NoThread
    pc,         \* of each thread: "idle", "waiting" in WITH_LOCK, or "locked"
    held        \* of each thread: the operation it runs under the lock, and the
                \* members as they were when it took the lock

lockVars == <<mutex_, pc, held>>

vars == <<managerVars, filterVars, lockVars>>

\* FactoryHandler
FactoryHandler(id, handler, stream) == [id |-> id, handler |-> handler, stream |-> stream]

\* Whether a record with this id exists.
HasId(m, id) == \E i \in 1..Len(m.factoryHandlers_) : m.factoryHandlers_[i].id = id

\* DestroyRecord with line 745 left out: the handler stays in activeHandlers_.
DestroyRecordKeepsActive(m, h) ==
    LET m2 == destroyHandler(m, m.handlerFactory_, h.handler)
    IN  IF h.stream # NullObj
        THEN destroyStream(m2, m2.streamFactory_, h.stream)
        ELSE m2

\* DestroyRecord with lines 747-749 left out: the stream is not destroyed.
DestroyRecordKeepsStream(m, h) ==
    LET m1 == [m EXCEPT !.activeHandlers_ = RemoveOne(@, h.handler),
                        !.ev = Append(@, Event("removeOne", h.handler, "activeHandlers_"))]
    IN  destroyHandler(m1, m1.handlerFactory_, h.handler)

\* DestroyRecord with lines 746 and 747-749 exchanged: the stream is destroyed
\* before the handler.
DestroyRecordStreamFirst(m, h) ==
    LET m1 == [m EXCEPT !.activeHandlers_ = RemoveOne(@, h.handler),
                        !.ev = Append(@, Event("removeOne", h.handler, "activeHandlers_"))]
        m2 == IF h.stream # NullObj
              THEN destroyStream(m1, m1.streamFactory_, h.stream)
              ELSE m1
    IN  destroyHandler(m2, m2.handlerFactory_, h.handler)

\* The body of the loops of destroyFactoryHandler and destroyFactoryHandlers.
DestroyRecord(m, h) ==
    LET m1 == [m EXCEPT !.activeHandlers_ = RemoveOne(@, h.handler),
                        !.ev = Append(@, Event("removeOne", h.handler, "activeHandlers_"))]
        m2 == destroyHandler(m1, m1.handlerFactory_, h.handler)
    IN  IF h.stream # NullObj
        THEN destroyStream(m2, m2.streamFactory_, h.stream)
        ELSE m2

\* destroyFactoryHandler with remove(0) in place of remove(i) at line 750.
destroyFactoryHandlerRemovesFirst(m, id) ==
    LET d == {i \in 1..Len(m.factoryHandlers_) : m.factoryHandlers_[i].id = id}
    IN  IF d = {} THEN m
        ELSE LET i == CHOOSE k \in d : \A j \in d : k <= j
             IN  [DestroyRecord(m, m.factoryHandlers_[i])
                     EXCEPT !.factoryHandlers_ = RemoveAt(@, 0)]

\* destroyFactoryHandler(id)
destroyFactoryHandler(m, id) ==
    LET d == {i \in 1..Len(m.factoryHandlers_) : m.factoryHandlers_[i].id = id}
    IN  IF d = {} THEN m
        ELSE LET i == CHOOSE k \in d : \A j \in d : k <= j
             IN  [DestroyRecord(m, m.factoryHandlers_[i])
                     EXCEPT !.factoryHandlers_ = RemoveAt(@, i - 1)]

\* The loop of destroyFactoryHandlers() from element i on.
RECURSIVE DestroyEach(_, _)
DestroyEach(m, i) ==
    IF i > Len(m.factoryHandlers_) THEN m
    ELSE DestroyEach(DestroyRecord(m, m.factoryHandlers_[i]), i + 1)

\* destroyFactoryHandlers with every active handler destroyed, the caller's
\* included.
destroyActiveHandlers(m) ==
    LET m1 == DestroyEach(m, 1)
        m2 == IF UserHandler \in Range(m1.activeHandlers_)
              THEN destroyHandler([m1 EXCEPT !.activeHandlers_ = RemoveOne(@, UserHandler)],
                                  m1.handlerFactory_, UserHandler)
              ELSE m1
    IN  [m2 EXCEPT !.factoryHandlers_ = <<>>]

\* destroyFactoryHandlers()
destroyFactoryHandlers(m) == [DestroyEach(m, 1) EXCEPT !.factoryHandlers_ = <<>>]

\* What an operation returns: the state, the result, the exit taken.
Result(m, ret, path) == [m |-> m, ret |-> ret, path |-> path]

(***************************************************************************)
(* addFactoryHandler(id, handlerType, level, filters, handlerParams,       *)
(* streamType, streamParams).  fail names the call that the environment    *)
(* lets fail: the copy of the id, a substitute factory producing nothing,  *)
(* the allocation of the handler, or one of the two Array::append calls.   *)
(* The operation is written in its stages; sf and hf are the factories the *)
(* scope guards hold.                                                      *)
(***************************************************************************)
\* AddRecord with prepend() in place of append() at lines 696 and 699: the
\* record and the handler become the first ones.
AddRecordPrepends(h, stream, sf, hf, id, fail) ==
    IF fail \in {"record", "active"}
    THEN Result(StreamDeleter(HandlerDeleter(h.m, hf, h.obj), sf, stream), FALSE, fail)
    ELSE Result([h.m EXCEPT !.factoryHandlers_ =
                                <<FactoryHandler(id, h.obj, stream)>> \o @,
                            !.activeHandlers_ = <<h.obj>> \o @],
                TRUE, "added")

\* Lines 694-706: the two appends, with h the created handler (h.obj is not null).
AddRecord(h, stream, sf, hf, id, fail) ==
    IF fail = "record"
    THEN Result(StreamDeleter(HandlerDeleter(h.m, hf, h.obj), sf, stream), FALSE, "record")
    ELSE IF fail = "active"
    THEN Result(StreamDeleter(
                    HandlerDeleter(
                        [h.m EXCEPT !.factoryHandlers_ =
                            TakeLast(Append(@, FactoryHandler(id, h.obj, stream)))],
                        hf, h.obj),
                    sf, stream),
                FALSE, "active")
    ELSE Result([h.m EXCEPT !.factoryHandlers_ =
                                Append(@, FactoryHandler(id, h.obj, stream)),
                            !.activeHandlers_ = Append(@, h.obj)],
                TRUE, "added")

\* Lines 691-693: the handler scope guard is tested.
AddCheckHandler(h, stream, sf, hf, id, fail) ==
    IF h.obj = NullObj
    THEN Result(StreamDeleter(h.m, sf, stream), FALSE, "handler")
    ELSE AddRecord(h, stream, sf, hf, id, fail)

\* AddHandler with lines 682-684 left out: a null stream is passed on.
AddHandlerNoStreamCheck(s, sf, hf, id, handlerType, cfg, handlerParams, streamType, fail) ==
    AddCheckHandler(IF handlerType # NullType /\ hf # NullFactory
                    THEN createHandler(s.m, hf, handlerType, cfg, s.obj, handlerParams,
                                       fail # "handler")
                    ELSE [m |-> s.m, obj |-> NullObj],
                    s.obj, sf, hf, id, fail)

\* Lines 682-690: the stream scope guard is tested and the handler is created,
\* with s the created stream.
AddHandler(s, sf, hf, id, handlerType, cfg, handlerParams, streamType, fail) ==
    IF streamType # NullType /\ s.obj = NullObj THEN Result(s.m, FALSE, "stream")
    ELSE AddCheckHandler(IF handlerType # NullType /\ hf # NullFactory
                         THEN createHandler(s.m, hf, handlerType, cfg, s.obj,
                                            handlerParams, fail # "handler")
                         ELSE [m |-> s.m, obj |-> NullObj],
                         s.obj, sf, hf, id, fail)

\* AddStream with lines 673-675 left out: any id is taken.
AddStreamAnyId(m0, id, handlerType, cfg, handlerParams, streamType, streamParams, fail) ==
    AddHandler(IF streamType # NullType /\ m0.streamFactory_ # NullFactory
               THEN createStream(m0, m0.streamFactory_, streamType, streamParams,
                                  fail # "stream")
               ELSE [m |-> m0, obj |-> NullObj],
               m0.streamFactory_, m0.handlerFactory_,
               id, handlerType, cfg, handlerParams, streamType, fail)

\* Lines 671-681: the id is copied and tested, and the stream is created.
AddStream(m0, id, handlerType, cfg, handlerParams, streamType, streamParams, fail) ==
    IF id = "" \/ fail = "id" THEN Result(m0, FALSE, "id")
    ELSE AddHandler(IF streamType # NullType /\ m0.streamFactory_ # NullFactory
                    THEN createStream(m0, m0.streamFactory_, streamType, streamParams,
                                  fail # "stream")
                    ELSE [m |-> m0, obj |-> NullObj],
                    m0.streamFactory_, m0.handlerFactory_,
                    id, handlerType, cfg, handlerParams, streamType, fail)

addFactoryHandlerOp(m, id, handlerType, cfg, handlerParams, streamType, streamParams, fail) ==
    AddStream(destroyFactoryHandler(m, id), id, handlerType, cfg, handlerParams,
              streamType, streamParams, fail)

\* removeFactoryHandler(id)
removeFactoryHandlerOp(m, id) == destroyFactoryHandler(m, id)

\* setHandlerFactory with lines 726 and 727 exchanged: the pointer is replaced
\* before the handlers are destroyed.
setHandlerFactorySwapsFirst(m, factory) ==
    IF m.handlerFactory_ # factory
    THEN destroyFactoryHandlers(
             [m EXCEPT !.handlerFactory_ = factory,
                       !.ev = Append(@, Event("handlerFactory_", NullObj, factory))])
    ELSE m

\* setHandlerFactory(factory)
setHandlerFactoryOp(m, factory) ==
    IF m.handlerFactory_ # factory
    THEN LET m1 == destroyFactoryHandlers(m)
         IN  [m1 EXCEPT !.handlerFactory_ = factory,
                        !.ev = Append(@, Event("handlerFactory_", NullObj, factory))]
    ELSE m

\* setStreamFactory(factory)
setStreamFactoryOp(m, factory) ==
    IF m.streamFactory_ # factory
    THEN LET m1 == destroyFactoryHandlers(m)
         IN  [m1 EXCEPT !.streamFactory_ = factory,
                        !.ev = Append(@, Event("streamFactory_", NullObj, factory))]
    ELSE m

\* ~LogManager()
teardownOp(m) == destroyFactoryHandlers([m EXCEPT !.callbacks = "null"])

\* addHandler(handler); appended: Array::append succeeds.
addHandlerOp(m, handler, appended) ==
    IF handler \in Range(m.activeHandlers_) THEN Result(m, FALSE, "contains")
    ELSE IF ~appended THEN Result(m, FALSE, "append")
    ELSE LET m1 == [m EXCEPT !.activeHandlers_ = Append(@, handler)]
         IN  Result(IF Len(m1.activeHandlers_) = 1
                    THEN [m1 EXCEPT !.callbacks = "set"]
                    ELSE m1,
                    TRUE, "added")

\* removeHandler without the isEmpty() test of line 661: the callbacks are reset
\* whenever the handler was removed.
removeHandlerAlwaysResets(m, handler) ==
    LET removed == handler \in Range(m.activeHandlers_)
        m1 == [m EXCEPT !.activeHandlers_ = RemoveOne(@, handler)]
    IN  IF removed THEN [m1 EXCEPT !.callbacks = "null"] ELSE m1

\* removeHandler(handler)
removeHandlerOp(m, handler) ==
    LET removed == handler \in Range(m.activeHandlers_)
        m1 == [m EXCEPT !.activeHandlers_ = RemoveOne(@, handler)]
    IN  IF removed /\ m1.activeHandlers_ = <<>>
        THEN [m1 EXCEPT !.callbacks = "null"]
        ELSE m1

\* The loop of enumFactoryHandlers run from the last record to the first.
RECURSIVE EnumEachBackwards(_, _)
EnumEachBackwards(m, i) ==
    IF i > Len(m.factoryHandlers_) THEN m
    ELSE EnumEachBackwards(
             [m EXCEPT !.ev = Append(@, Event("callback", NullObj,
                                              m.factoryHandlers_[Len(m.factoryHandlers_) + 1 - i].id))],
             i + 1)

\* The loop of enumFactoryHandlers from element i on: callback(h.id.c_str(), data).
RECURSIVE EnumEach(_, _)
EnumEach(m, i) ==
    IF i > Len(m.factoryHandlers_) THEN m
    ELSE EnumEach([m EXCEPT !.ev = Append(@, Event("callback", NullObj,
                                                   m.factoryHandlers_[i].id))],
                  i + 1)

\* enumFactoryHandlers(callback, data)
enumFactoryHandlersOp(m) == EnumEach(m, 1)

\* The loop of logMessage and logWrite run from the last handler to the first.
RECURSIVE DispatchEachBackwards(_, _, _)
DispatchEachBackwards(m, call, i) ==
    IF i > Len(m.activeHandlers_) THEN m
    ELSE DispatchEachBackwards(
             [m EXCEPT !.ev = Append(@, Event(call,
                                              m.activeHandlers_[Len(m.activeHandlers_) + 1 - i],
                                              "handler"))],
             call, i + 1)

\* The loop of logMessage and logWrite from element i on: handler->message(...)
\* or handler->write(...).
RECURSIVE DispatchEach(_, _, _)
DispatchEach(m, call, i) ==
    IF i > Len(m.activeHandlers_) THEN m
    ELSE DispatchEach([m EXCEPT !.ev = Append(@, Event(call, m.activeHandlers_[i],
                                                       "handler"))],
                      call, i + 1)

\* logMessage(msg, level, category, attr, reserved)
logMessageOp(m) == DispatchEach(m, "message", 1)

\* logWrite(data, size, level, category, reserved)
logWriteOp(m) == DispatchEach(m, "write", 1)

\* The loop of logEnabled over the active handlers from element i on.
RECURSIVE MinLevel(_, _, _, _)
MinLevel(m, category, i, minLevel) ==
    IF i > Len(m.activeHandlers_) THEN minLevel
    ELSE LET level == HandlerLevel(m.heap[m.activeHandlers_[i]].cfg, category)
         IN  MinLevel(m, category, i + 1, IF level < minLevel THEN level ELSE minLevel)

\* logEnabled with > in place of >= at line 801.
logEnabledAbove(m, level, category) ==
    level > MinLevel(m, category, 1, LOG_LEVEL_NONE)

\* logEnabled(level, category, reserved)
logEnabledOp(m, level, category) ==
    level >= MinLevel(m, category, 1, LOG_LEVEL_NONE)

(***************************************************************************)
(* JSONRequestHandler.  A request is the JSONValue that JSONValue::parse   *)
(* produced: the invalid value, or an object whose members are strings     *)
(* (cmd, id, lvl), objects (hnd, strm) or an array of objects (filt).      *)
(***************************************************************************)
\* JSONString(): the string a field has when the request does not name it.
EmptyString == ""

\* The table of parseLevel.
LevelNames ==
    << [name |-> "none", level |-> LOG_LEVEL_NONE],
       [name |-> "trace", level |-> LOG_LEVEL_TRACE],
       [name |-> "info", level |-> LOG_LEVEL_INFO],
       [name |-> "warn", level |-> LOG_LEVEL_WARN],
       [name |-> "error", level |-> LOG_LEVEL_ERROR],
       [name |-> "panic", level |-> LOG_LEVEL_PANIC],
       [name |-> "all", level |-> LOG_LEVEL_ALL] >>

\* parseLevel(value, level): the entry found, or failure.
parseLevel(name, level) ==
    LET found == {i \in DOMAIN LevelNames : LevelNames[i].name = name}
    IN  IF found = {} THEN [ok |-> FALSE, level |-> level]
        ELSE [ok |-> TRUE,
              level |-> LevelNames[CHOOSE i \in found : \A j \in found : i <= j].level]

\* parseObject(value, object): the loop from member i on.
RECURSIVE parseObject(_, _, _)
parseObject(value, i, object) ==
    IF i > Len(value.members) THEN object
    ELSE LET it == value.members[i]
         IN  parseObject(value, i + 1,
                 IF it.name = "type" THEN [object EXCEPT !.type = it.value]
                 ELSE IF it.name = "params" THEN [object EXCEPT !.params = it.value]
                 ELSE object)

\* The inner loop of parseFilters over the members of one element, from member
\* i on; f holds cat and level so far.
RECURSIVE parseFilter(_, _, _)
parseFilter(value, i, f) ==
    IF i > Len(value.members) THEN f
    ELSE LET it2 == value.members[i]
         IN  IF it2.name = "cat"
             THEN parseFilter(value, i + 1, [f EXCEPT !.cat = it2.value])
             ELSE IF it2.name = "lvl"
             THEN LET l == parseLevel(it2.value, f.level)
                  IN  IF l.ok THEN parseFilter(value, i + 1, [f EXCEPT !.level = l.level])
                      ELSE [f EXCEPT !.ok = FALSE]
             ELSE parseFilter(value, i + 1, f)

\* The outer loop of parseFilters from element i on.
RECURSIVE parseFiltersFrom(_, _, _)
parseFiltersFrom(elements, i, filters) ==
    IF i > Len(elements) THEN [ok |-> TRUE, filters |-> filters]
    ELSE LET f == parseFilter(elements[i], 1,
                              [ok |-> TRUE, cat |-> <<>>, level |-> LOG_LEVEL_NONE])
         IN  IF ~f.ok THEN [ok |-> FALSE, filters |-> filters]
             ELSE parseFiltersFrom(elements, i + 1,
                                   Append(filters, [cat |-> f.cat, level |-> f.level]))

\* parseFilters(value, filters); reserved: filters->reserve() succeeds.
parseFilters(elements, reserved) ==
    IF ~reserved THEN [ok |-> FALSE, filters |-> <<>>]
    ELSE parseFiltersFrom(elements, 1, <<>>)

\* Request(): nothing named, level LOG_LEVEL_NONE.
NoRequest ==
    [ok |-> TRUE, cmd |-> EmptyString, id |-> EmptyString,
     handler |-> [type |-> EmptyString, params |-> NullValue],
     stream |-> [type |-> EmptyString, params |-> NullValue],
     filters |-> <<>>, level |-> LOG_LEVEL_NONE]

\* parseRequest(value, req): the loop from member i on.
RECURSIVE parseRequest(_, _, _, _)
parseRequest(value, i, req, reserved) ==
    IF i > Len(value.members) THEN req
    ELSE LET it == value.members[i]
         IN  IF it.name = "cmd"
             THEN parseRequest(value, i + 1, [req EXCEPT !.cmd = it.value], reserved)
             ELSE IF it.name = "id"
             THEN parseRequest(value, i + 1, [req EXCEPT !.id = it.value], reserved)
             ELSE IF it.name = "hnd"
             THEN parseRequest(value, i + 1,
                      [req EXCEPT !.handler = parseObject(it.value, 1, @)], reserved)
             ELSE IF it.name = "strm"
             THEN parseRequest(value, i + 1,
                      [req EXCEPT !.stream = parseObject(it.value, 1, @)], reserved)
             ELSE IF it.name = "filt"
             THEN LET f == parseFilters(it.value, reserved)
                  IN  IF f.ok
                      THEN parseRequest(value, i + 1, [req EXCEPT !.filters = f.filters],
                                        reserved)
                      ELSE [req EXCEPT !.ok = FALSE]
             ELSE IF it.name = "lvl"
             THEN LET l == parseLevel(it.value, req.level)
                  IN  IF l.ok
                      THEN parseRequest(value, i + 1, [req EXCEPT !.level = l.level],
                                        reserved)
                      ELSE [req EXCEPT !.ok = FALSE]
             ELSE parseRequest(value, i + 1, req, reserved)

\* JSONRequestHandler::addHandler(req, writer).  The handler is given the filter
\* configuration of its id, as in every call of addFactoryHandler looked at: the
\* level and the filters of the request decide whether the request parses.
RequestAddHandler(m, req, fail) ==
    addFactoryHandlerOp(m, req.id, req.handler.type, CfgOf(req.id), req.handler.params,
                        req.stream.type, req.stream.params, fail)

\* JSONRequestHandler::removeHandler(req, writer)
RequestRemoveHandler(m, req) ==
    Result(removeFactoryHandlerOp(m, req.id), TRUE, "removeHandler")

\* JSONRequestHandler::enumHandlers(req, writer)
RequestEnumHandlers(m, req) ==
    Result(enumFactoryHandlersOp(m), TRUE, "enumHandlers")

\* processRequest(req, writer)
processRequest(m, req, fail) ==
    IF req.cmd = "addHandler" THEN RequestAddHandler(m, req, fail)
    ELSE IF req.cmd = "removeHandler" THEN RequestRemoveHandler(m, req)
    ELSE IF req.cmd = "enumHandlers" THEN RequestEnumHandlers(m, req)
    ELSE Result(m, FALSE, "cmd")

\* process(buf, bufSize, reqSize, repSize), with jsonReq what the buffer parses to.
processOp(m, jsonReq, reserved, fail) ==
    IF jsonReq.type = "invalid" THEN Result(m, FALSE, "parse")
    ELSE LET req == parseRequest(jsonReq, 1, NoRequest, reserved)
         IN  IF ~req.ok THEN Result(m, FALSE, "request")
             ELSE processRequest(m, req, fail)

(***************************************************************************)
(* The state machine: one step per call of a public operation, run under   *)
(* the manager's mutex.                                                    *)
(***************************************************************************)
\* The manager's state at the start of an operation: no call made yet.
M == [activeHandlers_ |-> activeHandlers_, factoryHandlers_ |-> factoryHandlers_,
      handlerFactory_ |-> handlerFactory_, streamFactory_ |-> streamFactory_,
      callbacks |-> callbacks, heap |-> heap, ev |-> <<>>,
      used |-> {o \in Pool : heap[o].kind # "free"}]

\* The manager's members after an operation that ends in state m.
Members(m) ==
    /\ activeHandlers_' = m.activeHandlers_
    /\ factoryHandlers_' = m.factoryHandlers_
    /\ handlerFactory_' = m.handlerFactory_
    /\ streamFactory_' = m.streamFactory_
    /\ callbacks' = m.callbacks
    /\ heap' = m.heap

\* An operation of the living manager run as one step: the threads are not
\* looked at.
Becomes(m) == ~destructed /\ Members(m) /\ UNCHANGED <<destructed, filterVars, lockVars>>

\* No operation is running.
NoCall == [kind |-> "none", id |-> "", handlerType |-> NullType, streamType |-> NullType,
           fail |-> "none", factory |-> NullFactory]
Nothing == [c |-> NoCall, m |-> <<>>]

NoThreads ==
    /\ mutex_ = NoThread
    /\ pc = [t \in Threads |-> "idle"]
    /\ held = [t \in Threads |-> Nothing]

\* No LogFilter is looked at on its own.
NoFilter ==
    /\ filterArgs = [level |-> LOG_LEVEL_NONE, filters |-> <<>>, reserveOk |-> TRUE,
                     budget |-> -1]
    /\ filter = LogFilterLevel(LOG_LEVEL_NONE)
    /\ filterPc = "none"
    /\ resolved = [category |-> NullStr, level |-> LOG_LEVEL_NONE]

\* LogManager(): the default factories, nothing registered.
ManagerInit ==
    /\ activeHandlers_ = <<>>
    /\ factoryHandlers_ = <<>>
    /\ handlerFactory_ = DefaultLogHandlerFactory
    /\ streamFactory_ = DefaultOutputStreamFactory
    /\ callbacks = "null"
    /\ destructed = FALSE
    /\ heap = [o \in Static \cup Pool |->
                 IF o = UserHandler
                 THEN [kind |-> "user", by |-> "caller", cfg |-> UserCfg, alive |-> TRUE]
                 ELSE IF o \in Static
                 THEN [kind |-> "serial", by |-> "global", cfg |-> 0, alive |-> FALSE]
                 ELSE FreeObj]

Init == NoFilter /\ NoThreads /\ ManagerInit

addHandler ==
    \E appended \in BOOLEAN :
        \E r \in {addHandlerOp(M, UserHandler, appended)} : Becomes(r.m)

removeHandler ==
    \E m \in {removeHandlerOp(M, UserHandler)} : Becomes(m)

(***************************************************************************)
(* The inputs of addFactoryHandler in state m, without those that repeat   *)
(* another: a failure is injected only into a call that is made.  The call *)
(* is made when the pool holds the objects it may create.                  *)
(***************************************************************************)
AddInput(m, id, handlerType, streamType, fail) ==
    /\ Cardinality({o \in Pool : m.heap[o].kind = "free"}) >=
           IF m.streamFactory_ = CustomStreamFactory THEN 2 ELSE 1
    /\ id = "" => (handlerType = "Bogus" /\ streamType = NullType /\ fail = "none")
    /\ fail = "id" => (handlerType = "Bogus" /\ streamType = NullType)
    /\ fail = "stream" =>
           (streamType # NullType /\ m.streamFactory_ = CustomStreamFactory)
    /\ fail = "handler" => m.handlerFactory_ # NullFactory

\* The calls of addFactoryHandler that the state admits, and what call c does.
AddCalls ==
    {c \in [id : Ids, handlerType : HandlerTypes, streamType : StreamTypes,
            fail : FailPoints] :
        AddInput(M, c.id, c.handlerType, c.streamType, c.fail)}

AddOf(c) == addFactoryHandlerOp(M, c.id, c.handlerType, CfgOf(c.id), NullValue,
                                c.streamType, NullValue, c.fail)

\* What call c of addFactoryHandler does on the members m.
AddIn(m, c) == addFactoryHandlerOp(m, c.id, c.handlerType, CfgOf(c.id), NullValue,
                                   c.streamType, NullValue, c.fail)

addFactoryHandler ==
    \E c \in AddCalls :
        \E r \in {AddOf(c)} : Becomes(r.m)

removeFactoryHandler ==
    \E id \in Ids :
        \E m \in {removeFactoryHandlerOp(M, id)} : Becomes(m)

enumFactoryHandlers ==
    \E m \in {enumFactoryHandlersOp(M)} : Becomes(m)

setHandlerFactory ==
    \E factory \in HandlerFactories :
        \E m \in {setHandlerFactoryOp(M, factory)} : Becomes(m)

setStreamFactory ==
    \E factory \in StreamFactories :
        \E m \in {setStreamFactoryOp(M, factory)} : Becomes(m)

logMessage ==
    \E m \in {logMessageOp(M)} : Becomes(m)

logWrite ==
    \E m \in {logWriteOp(M)} : Becomes(m)

logEnabled ==
    \E level \in MessageLevels, category \in Categories :
        /\ ~destructed
        /\ logEnabledOp(M, level, category) \in BOOLEAN
        /\ UNCHANGED vars

\* ~LogManager(): no operation is called afterwards.
teardown ==
    /\ ~destructed
    /\ \E m \in {teardownOp(M)} : Members(m)
    /\ destructed' = TRUE
    /\ UNCHANGED <<filterVars, lockVars>>

(***************************************************************************)
(* The requests given to process.  A field is a sequence: empty when the   *)
(* request does not name it, else its one value.                           *)
(***************************************************************************)
Field(name, vs) == [i \in 1..Len(vs) |-> Member(name, vs[i])]

\* The object of a hnd or strm field: its type, and parameters under key.
TypedObject(type, key, params) ==
    JSONObject(Field("type", type) \o Field(key, params))

\* The request with these fields.
JSONRequest(q) ==
    JSONObject(Field("cmd", q.cmd) \o Field("id", q.id) \o Field("hnd", q.hnd) \o
               Field("strm", q.strm) \o Field("filt", q.filt) \o Field("lvl", q.lvl))

Baud == 115200
BaudParams == JSONObject(<<Member("baud", Baud)>>)
ParamKeys == {"param", "params"}

\* hnd and strm without parameters, with a type or without.
PlainHnd == {<<>>} \cup {<<TypedObject(<<t>>, "params", <<>>)>> : t \in HandlerTypes}
PlainStrm == {<<>>} \cup {<<TypedObject(<<t>>, "params", <<>>)>> : t \in StreamTypes \ {NullType}}

\* hnd and strm of the built-in types with parameters under either key.
ParamHnd == {<<TypedObject(<<"StreamLogHandler">>, k, <<BaudParams>>)>> : k \in ParamKeys}
ParamStrm == {<<TypedObject(<<"Serial1">>, k, <<BaudParams>>)>> : k \in ParamKeys}

\* lvl and filt: none, known names, and unknown names.
NoLevels == [lvl |-> <<>>, filt |-> <<>>]
LevelsAndFilters ==
    { [lvl |-> <<"warn">>, filt |-> <<>>],
      [lvl |-> <<"error">>,
       filt |-> << << JSONObject(<<Member("cat", CatA), Member("lvl", "all")>>),
                      JSONObject(<<Member("cat", CatAB), Member("lvl", "none")>>) >> >>],
      [lvl |-> <<"verbose">>, filt |-> <<>>],
      [lvl |-> <<>>,
       filt |-> << << JSONObject(<<Member("cat", CatA), Member("lvl", "verbose")>>) >> >>] }

RequestIds == {<<>>, <<"">>, <<"h1">>}
RequestCmds == {<<>>, <<"addHandler">>, <<"removeHandler">>, <<"enumHandlers">>, <<"reset">>}

RequestOf(c, i, h, s, lf) ==
    [cmd |-> c, id |-> i, hnd |-> h, strm |-> s, filt |-> lf.filt, lvl |-> lf.lvl]

\* addHandler with every id and type; a complete addHandler with levels, filters
\* and parameters; the other commands with every id, and with levels and filters.
Requests ==
    {RequestOf(<<"addHandler">>, i, h, s, NoLevels) :
        i \in RequestIds, h \in PlainHnd, s \in PlainStrm}
    \cup
    {RequestOf(<<"addHandler">>, <<"h1">>, <<TypedObject(<<"StreamLogHandler">>, "params", <<>>)>>,
               <<TypedObject(<<"Serial1">>, "params", <<>>)>>, lf) : lf \in LevelsAndFilters}
    \cup
    {RequestOf(<<"addHandler">>, <<"h1">>, h, s, NoLevels) : h \in ParamHnd, s \in ParamStrm}
    \cup
    {RequestOf(c, i, <<>>, <<>>, NoLevels) :
        c \in RequestCmds \ {<<"addHandler">>}, i \in RequestIds}
    \cup
    {RequestOf(c, <<"h1">>, <<>>, <<>>, lf) :
        c \in RequestCmds \ {<<"addHandler">>}, lf \in LevelsAndFilters}

(***************************************************************************)
(* The calls of process that the state admits: a request, whether the      *)
(* filters' reserve() succeeds, and the call let fail in addFactoryHandler.*)
(* A failure is injected only into a call that is made.                    *)
(***************************************************************************)
ProcessInput(m, q, reserved, fail) ==
    /\ Cardinality({o \in Pool : m.heap[o].kind = "free"}) >=
           IF m.streamFactory_ = CustomStreamFactory THEN 2 ELSE 1
    /\ ~reserved => (q.filt # <<>> /\ q.lvl # <<>> /\ fail = "none")
    /\ fail # "none" =>
           /\ q.cmd = <<"addHandler">> /\ q.id = <<"h1">> /\ q.lvl = <<>> /\ q.filt = <<>>
           /\ q.hnd \in PlainHnd \ {<<>>} /\ q.strm \in PlainStrm \ {<<>>}
    /\ fail = "stream" => m.streamFactory_ = CustomStreamFactory
    /\ fail = "handler" => m.handlerFactory_ # NullFactory

ProcessCalls ==
    {c \in [q : Requests, reserved : BOOLEAN, fail : FailPoints \ {"id"}] :
        ProcessInput(M, c.q, c.reserved, c.fail)}
    \cup {[q |-> NullValue, reserved |-> TRUE, fail |-> "none"]}

\* What call c of process does: an invalid buffer parses to the invalid value.
ProcessOf(c) ==
    processOp(M, IF c.q = NullValue THEN NullValue ELSE JSONRequest(c.q),
              c.reserved, c.fail)

process ==
    \E c \in ProcessCalls :
        \E r \in {ProcessOf(c)} : Becomes(r.m)

Next ==
    \/ addHandler
    \/ removeHandler
    \/ addFactoryHandler
    \/ removeFactoryHandler
    \/ enumFactoryHandlers
    \/ setHandlerFactory
    \/ setStreamFactory
    \/ logMessage
    \/ logWrite
    \/ logEnabled
    \/ process
    \/ teardown

Spec == Init /\ [][Next]_vars

(***************************************************************************)
(* A LogFilter on its own: its constructor is given a level, filters and   *)
(* the allocations that succeed, and level() is then called on it.         *)
(***************************************************************************)
\* Bounds: the number of filters, and of node insertions before one fails.
MaxFilters == 2
MaxInserted == 2

FilterCats == {CatA, CatAB, <<"a", ".", "b", ".", "c">>, <<"a", "a">>, <<"b">>}
FilterLevels == {LOG_LEVEL_WARN, LOG_LEVEL_ERROR}
DefaultLevels == {LOG_LEVEL_INFO, LOG_LEVEL_NONE}

\* LogCategoryFilter(category, level)
LogCategoryFilter(cat, level) == [cat |-> cat, level |-> level]

\* filters [a:ERROR, a.b.c:TRACE, a.b.x:TRACE, aa:ERROR, aa.b:WARN]
ScenarioFilters ==
    << LogCategoryFilter(CatA, LOG_LEVEL_ERROR),
       LogCategoryFilter(<<"a", ".", "b", ".", "c">>, LOG_LEVEL_TRACE),
       LogCategoryFilter(<<"a", ".", "b", ".", "x">>, LOG_LEVEL_TRACE),
       LogCategoryFilter(<<"a", "a">>, LOG_LEVEL_ERROR),
       LogCategoryFilter(<<"a", "a", ".", "b">>, LOG_LEVEL_WARN) >>

\* The arguments of the constructor, and which of its allocations succeed.
FilterInputs ==
    LET lists == UNION {[1..n -> {LogCategoryFilter(c, l) : c \in FilterCats,
                                                          l \in FilterLevels}] :
                           n \in 0..MaxFilters}
        allocs == {[reserveOk |-> FALSE, budget |-> -1]}
                      \cup {[reserveOk |-> TRUE, budget |-> b] : b \in -1..MaxInserted}
    IN  {[level |-> d, filters |-> fs, reserveOk |-> a.reserveOk, budget |-> a.budget] :
            d \in DefaultLevels, fs \in lists \cup {ScenarioFilters}, a \in allocs}

\* The categories level() is asked for.
QueryCats ==
    {NullStr, <<>>, CatA, CatAB, <<"a", ".", "b", ".", "c">>,
     <<"a", ".", "b", ".", "c", ".", "d">>, <<"a", "a">>, <<"a", "a", ".", "b">>,
     <<"a", "b">>, <<"b">>, CatZ}

FilterInit ==
    /\ ManagerInit
    /\ NoThreads
    /\ filterArgs \in FilterInputs
    /\ filter = LogFilterLevel(LOG_LEVEL_NONE)
    /\ filterPc = "args"
    /\ resolved = [category |-> NullStr, level |-> LOG_LEVEL_NONE]

\* LogFilter(level, filters)
constructFilter ==
    /\ filterPc = "args"
    /\ filter' = LogFilter(filterArgs.level, filterArgs.filters, filterArgs.reserveOk,
                           filterArgs.budget)
    /\ filterPc' = "built"
    /\ UNCHANGED <<filterArgs, resolved, managerVars, lockVars>>

\* level(category)
resolveLevel ==
    /\ filterPc \in {"built", "asked"}
    /\ \E category \in QueryCats :
           resolved' = [category |-> category, level |-> FilterLevel(filter, category)]
    /\ filterPc' = "asked"
    /\ UNCHANGED <<filterArgs, filter, managerVars, lockVars>>

FilterNext ==
    \/ constructFilter
    \/ resolveLevel

FilterSpec == FilterInit /\ [][FilterNext]_vars

(***************************************************************************)
(* The manager called by threads.  Every public operation runs its body in *)
(* WITH_LOCK(mutex_).  A thread calls an operation and waits for the       *)
(* mutex; when it takes the mutex it runs the operation up to its middle   *)
(* (the members then hold what the operation has written so far); when it  *)
(* leaves the block it has run the rest, and the mutex is released.  A     *)
(* dispatch reads activeHandlers_ when it takes the mutex and has invoked  *)
(* the handlers it read when it leaves.                                    *)
(***************************************************************************)
Dispatches == {"logMessage", "logWrite", "logEnabled", "enumFactoryHandlers"}
Mutations == {"addHandler", "removeHandler", "addFactoryHandler", "removeFactoryHandler",
              "setHandlerFactory", "setStreamFactory"}

CallOf(kind, id, handlerType, streamType, fail, factory) ==
    [kind |-> kind, id |-> id, handlerType |-> handlerType, streamType |-> streamType,
     fail |-> fail, factory |-> factory]

\* The operations called: each dispatch, each mutation, an addFactoryHandler
\* that succeeds and those that return early.
LockCalls ==
    {CallOf(k, "", NullType, NullType, "none", NullFactory) :
        k \in Dispatches \cup {"addHandler", "removeHandler"}}
    \cup {CallOf("addFactoryHandler", "h1", "StreamLogHandler", "Serial1", f, NullFactory) :
            f \in {"none", "record", "active"}}
    \cup {CallOf("addFactoryHandler", "", "Bogus", NullType, "none", NullFactory),
          CallOf("addFactoryHandler", "h1", "Bogus", "Serial1", "none", NullFactory),
          CallOf("addFactoryHandler", "h1", "StreamLogHandler", "Bogus", "none", NullFactory),
          CallOf("removeFactoryHandler", "h1", NullType, NullType, "none", NullFactory)}
    \cup {CallOf("setHandlerFactory", "", NullType, NullType, "none", f) :
            f \in {DefaultLogHandlerFactory, CustomHandlerFactory}}
    \cup {CallOf("setStreamFactory", "", NullType, NullType, "none", f) :
            f \in {DefaultOutputStreamFactory, NullFactory}}

\* Locks without the WITH_LOCK of logMessage, logWrite, logEnabled and
\* enumFactoryHandlers.
LocksMutations(kind) == kind \in Mutations

\* Whether the operation takes the mutex: each of them has its body in WITH_LOCK.
Locks(kind) == kind \in Dispatches \cup Mutations

\* CalledUnderLock with removeFactoryHandler(id) in place of
\* destroyFactoryHandler(id) at line 670.
CalledUnderLockRemove(kind) ==
    IF kind = "addFactoryHandler" THEN {"removeFactoryHandler"}
    ELSE IF kind = "removeFactoryHandler" THEN {"destroyFactoryHandler"}
    ELSE IF kind \in {"setHandlerFactory", "setStreamFactory"} THEN {"destroyFactoryHandlers"}
    ELSE {}

\* The functions of the manager that an operation calls inside WITH_LOCK.
CalledUnderLock(kind) ==
    IF kind \in {"addFactoryHandler", "removeFactoryHandler"} THEN {"destroyFactoryHandler"}
    ELSE IF kind \in {"setHandlerFactory", "setStreamFactory"} THEN {"destroyFactoryHandlers"}
    ELSE {}

\* The operation run to its end on the members m.
FullOf(c, m) ==
    CASE c.kind = "addHandler" -> addHandlerOp(m, UserHandler, TRUE).m
      [] c.kind = "removeHandler" -> removeHandlerOp(m, UserHandler)
      [] c.kind = "addFactoryHandler" -> AddIn(m, c).m
      [] c.kind = "removeFactoryHandler" -> removeFactoryHandlerOp(m, c.id)
      [] c.kind = "setHandlerFactory" -> setHandlerFactoryOp(m, c.factory)
      [] c.kind = "setStreamFactory" -> setStreamFactoryOp(m, c.factory)
      [] c.kind = "logMessage" -> logMessageOp(m)
      [] c.kind = "logWrite" -> logWriteOp(m)
      [] c.kind = "logEnabled" -> m
      [] c.kind = "enumFactoryHandlers" -> enumFactoryHandlersOp(m)

\* The record with this id run through the body of destroyFactoryHandler up to
\* line 749: the record is still stored.
DestroyNotRemoved(m, id) ==
    LET d == {i \in 1..Len(m.factoryHandlers_) : m.factoryHandlers_[i].id = id}
    IN  IF d = {} THEN m
        ELSE DestroyRecord(m, m.factoryHandlers_[CHOOSE k \in d : \A j \in d : k <= j])

\* The operation run to its middle on the members m: addFactoryHandler up to line
\* 698 when it is to succeed (the record appended, the handler not yet active),
\* else up to line 670; removeFactoryHandler up to line 749; setHandlerFactory and
\* setStreamFactory up to line 763 (the records not yet cleared).
HalfOf(c, m) ==
    CASE c.kind = "addFactoryHandler" ->
             LET r == AddIn(m, c)
             IN  IF r.ret THEN [r.m EXCEPT !.activeHandlers_ = TakeLast(@)]
                 ELSE destroyFactoryHandler(m, c.id)
      [] c.kind = "removeFactoryHandler" -> DestroyNotRemoved(m, c.id)
      [] c.kind = "setHandlerFactory" ->
             IF m.handlerFactory_ # c.factory THEN DestroyEach(m, 1) ELSE m
      [] c.kind = "setStreamFactory" ->
             IF m.streamFactory_ # c.factory THEN DestroyEach(m, 1) ELSE m
      [] OTHER -> m

\* A thread calls an operation: it comes to WITH_LOCK.
call(t) ==
    /\ pc[t] = "idle"
    /\ pc' = [pc EXCEPT ![t] = "waiting"]
    /\ UNCHANGED <<mutex_, held, managerVars, filterVars>>

\* The thread enters the block of operation c: it takes the mutex when c locks,
\* and blocks again, with the mutex, when c calls an operation that locks.
lock(t) ==
    /\ pc[t] = "waiting"
    /\ \E c \in LockCalls :
           /\ Locks(c.kind) => mutex_ = NoThread
           /\ c.kind = "addFactoryHandler" =>
                  AddInput(M, c.id, c.handlerType, c.streamType, "none")
           /\ mutex_' = IF Locks(c.kind) THEN t ELSE mutex_
           /\ pc' = [pc EXCEPT ![t] = IF \E f \in CalledUnderLock(c.kind) : Locks(f)
                                       THEN "waiting" ELSE "locked"]
           /\ held' = [held EXCEPT ![t] = [c |-> c, m |-> M]]
           /\ Members(HalfOf(c, M))
    /\ UNCHANGED <<destructed, filterVars>>

\* The thread leaves the block: the operation has run to its end on the members
\* it found, and the mutex is released.
unlock(t) ==
    /\ pc[t] = "locked"
    /\ Members(IF held[t].c.kind \in Dispatches THEN M
               ELSE FullOf(held[t].c, held[t].m))
    /\ mutex_' = IF mutex_ = t THEN NoThread ELSE mutex_
    /\ pc' = [pc EXCEPT ![t] = "idle"]
    /\ held' = [held EXCEPT ![t] = Nothing]
    /\ UNCHANGED <<destructed, filterVars>>

LockNext == \E t \in Threads : call(t) \/ lock(t) \/ unlock(t)

LockSpec == Init /\ [][LockNext]_vars

\* The steps of unlock(t) and of lock(t), as they show in pc.
Leaves(t) == pc[t] = "locked" /\ pc' = [pc EXCEPT ![t] = "idle"]
Enters(t) == pc[t] = "waiting" /\ mutex_ = NoThread /\ pc' = [pc EXCEPT ![t] = "locked"]

\* The scheduling: a block that was entered is left (handlers, factories and
\* visitors return), and a thread that waits for the mutex is not passed over
\* for ever when the mutex is released again and again.
Fairness == \A t \in Threads : WF_pc(Leaves(t)) /\ SF_pc(Enters(t))

FairLockSpec == LockSpec /\ Fairness

(***************************************************************************)
(* Properties.  A property of an operation is stated over every call the   *)
(* state admits: the manager before the call is M, the manager after it    *)
(* and the calls it made (ev) are what the operation's operator returns.   *)
(***************************************************************************)
\* The positions of the records with this id.
RecordsOf(m, id) == {i \in 1..Len(m.factoryHandlers_) : m.factoryHandlers_[i].id = id}

\* The record with this id, where one exists.
RecordOf(m, id) == m.factoryHandlers_[CHOOSE i \in RecordsOf(m, id) : TRUE]

\* The positions in ev of the calls e made on object obj.
Calls(ev, e, obj) == {i \in 1..Len(ev) : ev[i].e = e /\ ev[i].obj = obj}

\* The positions in ev of the calls e.
CallsOf(ev, e) == {i \in 1..Len(ev) : ev[i].e = e}

\* The objects that the calls e produced.
Made(ev, e) == {ev[i].obj : i \in CallsOf(ev, e)} \ {NullObj}

\* The positions of the records that refer to object obj.
Referring(m, obj) ==
    {i \in 1..Len(m.factoryHandlers_) :
        m.factoryHandlers_[i].handler = obj \/ m.factoryHandlers_[i].stream = obj}

\* The sequence without the elements equal to v.
Without(s, v) == SelectSeq(s, LAMBDA x : x # v)

\* The records without those with this id.
WithoutId(s, id) == SelectSeq(s, LAMBDA h : h.id # id)

(***************************************************************************)
(* C1: an addFactoryHandler call that returns failure leaves the active    *)
(* handlers and the factory records exactly as they were before the call,  *)
(* also when a record with the same id existed.                            *)
(***************************************************************************)
C1_FailedAddChangesNothing ==
    \A c \in AddCalls :
        \A r \in {AddOf(c)} :
            ~r.ret =>
                /\ r.m.activeHandlers_ = activeHandlers_
                /\ r.m.factoryHandlers_ = factoryHandlers_

(***************************************************************************)
(* C1, as the code has it: a failing addFactoryHandler call leaves the     *)
(* active handlers and the records as they were, except that a record with *)
(* the id of the call, and its handler, are gone.                          *)
(***************************************************************************)
C1_FailedAddDropsOnlySameId ==
    \A c \in AddCalls :
        \A r \in {AddOf(c)} :
            ~r.ret =>
                /\ r.m.factoryHandlers_ = WithoutId(factoryHandlers_, c.id)
                /\ r.m.activeHandlers_ =
                       IF HasId(M, c.id)
                       THEN Without(activeHandlers_, RecordOf(M, c.id).handler)
                       ELSE activeHandlers_

\* A failing call for an id that has a record can be made.
C1_FailedAddOfExistingId ==
    \E c \in AddCalls : HasId(M, c.id) /\ ~AddOf(c).ret

(***************************************************************************)
(* C2: when addFactoryHandler succeeds for an id that has a record, then   *)
(* exactly one record has that id afterwards, it refers to the handler and *)
(* the stream created in the call, that handler is active, the old handler *)
(* is not active, and the old handler and the old stream were destroyed.   *)
(***************************************************************************)
C2_ReplaceById ==
    \A c \in AddCalls :
        \A r \in {AddOf(c)} :
            (r.ret /\ HasId(M, c.id)) =>
                LET old == RecordOf(M, c.id)
                    new == RecordOf(r.m, c.id)
                IN  /\ Cardinality(RecordsOf(r.m, c.id)) = 1
                    /\ Made(r.m.ev, "createHandler") = {new.handler}
                    /\ Made(r.m.ev, "createStream") = {new.stream} \ {NullObj}
                    /\ new.handler # old.handler
                    /\ r.m.heap[new.handler].alive
                    /\ new.handler \in Range(r.m.activeHandlers_)
                    /\ old.handler \notin Range(r.m.activeHandlers_)
                    /\ Cardinality(Calls(r.m.ev, "destroyHandler", old.handler)) = 1
                    /\ r.m.heap[old.handler] = FreeObj
                    /\ old.stream # NullObj =>
                           Cardinality(Calls(r.m.ev, "destroyStream", old.stream)) = 1

\* A record that has a stream can be replaced.
C2_Replaced ==
    \E c \in AddCalls :
        /\ HasId(M, c.id)
        /\ RecordOf(M, c.id).stream # NullObj
        /\ AddOf(c).ret

(***************************************************************************)
(* C3: the ids of the factory records are pairwise distinct and none is    *)
(* empty, and addFactoryHandler with an empty id returns failure.          *)
(***************************************************************************)
C3_IdsDistinctNonEmpty ==
    /\ \A i, j \in 1..Len(factoryHandlers_) :
           factoryHandlers_[i].id = factoryHandlers_[j].id => i = j
    /\ \A i \in 1..Len(factoryHandlers_) : factoryHandlers_[i].id # ""
    /\ \A c \in AddCalls : c.id = "" => ~AddOf(c).ret

\* Two records exist, and a call with the empty id can be made.
C3_TwoRecords ==
    /\ Len(factoryHandlers_) = 2
    /\ \E c \in AddCalls : c.id = ""

(***************************************************************************)
(* C4: when a stream type is given and the stream factory does not create  *)
(* the stream (it returns null, or no stream factory is set),              *)
(* addFactoryHandler returns failure, the handler factory is not called,   *)
(* and no record and no active handler is added; from the empty manager,   *)
(* no active handler and no record exist afterwards.                       *)
(***************************************************************************)
C4_NoStreamNoHandler ==
    \A c \in AddCalls :
        \A r \in {AddOf(c)} :
            (/\ c.id # ""
             /\ c.streamType # NullType
             /\ \/ streamFactory_ = NullFactory
                \/ Calls(r.m.ev, "createStream", NullObj) # {}) =>
                /\ ~r.ret
                /\ CallsOf(r.m.ev, "createHandler") = {}
                /\ Range(r.m.factoryHandlers_) \subseteq Range(factoryHandlers_)
                /\ Range(r.m.activeHandlers_) \subseteq Range(activeHandlers_)
                /\ Len(r.m.factoryHandlers_) <= Len(factoryHandlers_)
                /\ Len(r.m.activeHandlers_) <= Len(activeHandlers_)
                /\ (activeHandlers_ = <<>> /\ factoryHandlers_ = <<>>) =>
                       (r.m.activeHandlers_ = <<>> /\ r.m.factoryHandlers_ = <<>>)

\* A substitute stream factory returns null for "Serial1" to a call made on the
\* empty manager.
C4_StreamNotCreated ==
    /\ activeHandlers_ = <<>>
    /\ factoryHandlers_ = <<>>
    /\ streamFactory_ = CustomStreamFactory
    /\ \E c \in AddCalls :
           /\ c.id = "h1"
           /\ c.handlerType = "StreamLogHandler"
           /\ c.streamType = "Serial1"
           /\ Calls(AddOf(c).m.ev, "createStream", NullObj) # {}

\* Object obj, which the call at position i of ev produced, was destroyed after
\* that exactly once, by call e of the factory that produced it.
DestroyedOnce(ev, i, e) ==
    /\ Cardinality({j \in Calls(ev, e, ev[i].obj) : j > i}) = 1
    /\ \A j \in Calls(ev, e, ev[i].obj) : j > i => ev[j].by = ev[i].by

\* What a failing call leaves of the objects it created: each was destroyed
\* once through its factory and is not alive; objs are those to which no record
\* and no active handler may refer.
RolledBack(m, objs) ==
    /\ \A i \in CallsOf(m.ev, "createStream") :
           m.ev[i].obj # NullObj =>
               /\ DestroyedOnce(m.ev, i, "destroyStream")
               /\ ~m.heap[m.ev[i].obj].alive
    /\ \A i \in CallsOf(m.ev, "createHandler") :
           m.ev[i].obj # NullObj =>
               /\ DestroyedOnce(m.ev, i, "destroyHandler")
               /\ ~m.heap[m.ev[i].obj].alive
    /\ \A o \in objs : Referring(m, o) = {} /\ o \notin Range(m.activeHandlers_)

\* What a successful call leaves of the objects it created: each is alive; one
\* record refers to each of objs.
Kept(m, objs) ==
    /\ \A o \in Made(m.ev, "createStream") \cup Made(m.ev, "createHandler") :
           m.heap[o].alive
    /\ \A o \in objs : Cardinality(Referring(m, o)) = 1

\* The objects that an addFactoryHandler call created.
MadeIn(m) == Made(m.ev, "createStream") \cup Made(m.ev, "createHandler")

(***************************************************************************)
(* C5: when addFactoryHandler fails after it created an object, every      *)
(* stream and handler it created is destroyed exactly once through the     *)
(* factory that created it, no record and no active handler refers to it   *)
(* afterwards, and no record of the call is left; when it succeeds, the    *)
(* handler and the stream are alive and exactly one record owns them.      *)
(***************************************************************************)
C5_CreatedObjectsRolledBack ==
    \A c \in AddCalls :
        \A r \in {AddOf(c)} :
            /\ (~r.ret /\ MadeIn(r.m) # {}) =>
                   (RolledBack(r.m, MadeIn(r.m)) /\ RecordsOf(r.m, c.id) = {})
            /\ r.ret => Kept(r.m, MadeIn(r.m))

(***************************************************************************)
(* C5, as the code has it: the same, where the references are those to the *)
(* objects a factory allocated; a serial port that the default stream      *)
(* factory hands out may be the stream of other records as well.           *)
(***************************************************************************)
C5_AllocatedObjectsRolledBack ==
    \A c \in AddCalls :
        \A r \in {AddOf(c)} :
            /\ (~r.ret /\ MadeIn(r.m) # {}) =>
                   (RolledBack(r.m, MadeIn(r.m) \ Static) /\ RecordsOf(r.m, c.id) = {})
            /\ r.ret => Kept(r.m, MadeIn(r.m) \ Static)

\* A call can fail at each of the three places after it created a stream, while
\* the stream of another record is the one it is given.
C5_FailsAfterCreation ==
    /\ \A p \in {"handler", "record", "active"} :
           \E c \in AddCalls :
               /\ AddOf(c).path = p
               /\ Made(AddOf(c).m.ev, "createStream") # {}
    /\ \E c \in AddCalls :
           /\ ~AddOf(c).ret
           /\ \E o \in Made(AddOf(c).m.ev, "createStream") :
                  Referring(AddOf(c).m, o) # {}

(***************************************************************************)
(* C6: when addFactoryHandler succeeds for an id that has no record and    *)
(* removeFactoryHandler is called next with the same id, the active        *)
(* handlers and the factory records are, members and order, what they were *)
(* before the add.                                                         *)
(***************************************************************************)
C6_AddThenRemove ==
    \A c \in AddCalls :
        \A r \in {AddOf(c)} :
            (r.ret /\ ~HasId(M, c.id)) =>
                \A m \in {removeFactoryHandlerOp(r.m, c.id)} :
                    /\ m.activeHandlers_ = activeHandlers_
                    /\ m.factoryHandlers_ = factoryHandlers_

\* An id without a record can be added while a record and an active handler exist.
C6_AddOfUnusedId ==
    /\ factoryHandlers_ # <<>>
    /\ UserHandler \in Range(activeHandlers_)
    /\ \E c \in AddCalls : ~HasId(M, c.id) /\ AddOf(c).ret

(***************************************************************************)
(* C7: removeFactoryHandler with the id of a record removes that record    *)
(* and no other, removes its handler from the active handlers, and         *)
(* destroys its handler and, if it has one, its stream; the other records  *)
(* and active handlers and their order stay.  With an id that no record    *)
(* has, nothing changes.                                                   *)
(***************************************************************************)
C7_RemoveFrame ==
    \A id \in Ids :
        \A m \in {removeFactoryHandlerOp(M, id)} :
            IF HasId(M, id)
            THEN LET h == RecordOf(M, id)
                 IN  /\ m.factoryHandlers_ = WithoutId(factoryHandlers_, id)
                     /\ Len(m.factoryHandlers_) = Len(factoryHandlers_) - 1
                     /\ m.activeHandlers_ = Without(activeHandlers_, h.handler)
                     /\ Len(m.activeHandlers_) = Len(activeHandlers_) - 1
                     /\ Cardinality(Calls(m.ev, "destroyHandler", h.handler)) = 1
                     /\ m.heap[h.handler] = FreeObj
                     /\ Cardinality(CallsOf(m.ev, "destroyHandler")) = 1
                     /\ IF h.stream # NullObj
                        THEN /\ Cardinality(Calls(m.ev, "destroyStream", h.stream)) = 1
                             /\ Cardinality(CallsOf(m.ev, "destroyStream")) = 1
                             /\ ~m.heap[h.stream].alive
                        ELSE CallsOf(m.ev, "destroyStream") = {}
                     /\ \A o \in DOMAIN heap :
                            o \notin {h.handler, h.stream} => m.heap[o] = heap[o]
                     /\ m.handlerFactory_ = handlerFactory_
                     /\ m.streamFactory_ = streamFactory_
            ELSE m = M

\* One of two records has a stream and can be removed, while the handler of the
\* caller is active too; and some id has no record.
C7_RemoveOneOfTwo ==
    /\ Len(factoryHandlers_) = 2
    /\ UserHandler \in Range(activeHandlers_)
    /\ factoryHandlers_[1].stream # NullObj
    /\ \E id \in Ids : ~HasId(M, id)

\* What a factory swap that set member to factory left in m: every record's
\* handler and stream destroyed through the factories of before the call, the
\* pointer replaced after that, no record and no factory-owned handler left.
Swapped(m, member, factory) ==
    /\ \A i \in 1..Len(factoryHandlers_) :
           LET h == factoryHandlers_[i]
           IN  /\ Cardinality(Calls(m.ev, "destroyHandler", h.handler)) = 1
               /\ m.heap[h.handler] = FreeObj
               /\ h.stream # NullObj =>
                      (Calls(m.ev, "destroyStream", h.stream) # {} /\ ~m.heap[h.stream].alive)
    /\ \A j \in CallsOf(m.ev, "destroyHandler") : m.ev[j].by = handlerFactory_
    /\ \A j \in CallsOf(m.ev, "destroyStream") : m.ev[j].by = streamFactory_
    /\ Cardinality(CallsOf(m.ev, "destroyHandler")) = Len(factoryHandlers_)
    /\ Cardinality(CallsOf(m.ev, "destroyStream")) =
           Cardinality({i \in 1..Len(factoryHandlers_) : factoryHandlers_[i].stream # NullObj})
    /\ CallsOf(m.ev, "nullDeref") = {}
    /\ CallsOf(m.ev, member) = {Len(m.ev)}
    /\ m.ev[Len(m.ev)].by = factory
    /\ m.factoryHandlers_ = <<>>
    /\ m.activeHandlers_ =
           SelectSeq(activeHandlers_,
                     LAMBDA a : \A i \in 1..Len(factoryHandlers_) :
                                    factoryHandlers_[i].handler # a)
    /\ \A a \in Range(m.activeHandlers_) : m.heap[a].kind # "handler"

(***************************************************************************)
(* C8: setHandlerFactory and setStreamFactory with a factory other than    *)
(* the current one destroy every factory-owned handler and stream through  *)
(* the factories that were current before the call and replace the pointer *)
(* only after that; no record and no factory-created active handler is     *)
(* left.  With the current factory, nothing changes.                       *)
(***************************************************************************)
C8_FactorySwap ==
    /\ \A factory \in HandlerFactories :
           \A m \in {setHandlerFactoryOp(M, factory)} :
               IF factory # handlerFactory_
               THEN /\ Swapped(m, "handlerFactory_", factory)
                    /\ m.handlerFactory_ = factory
                    /\ m.streamFactory_ = streamFactory_
               ELSE m = M
    /\ \A factory \in StreamFactories :
           \A m \in {setStreamFactoryOp(M, factory)} :
               IF factory # streamFactory_
               THEN /\ Swapped(m, "streamFactory_", factory)
                    /\ m.streamFactory_ = factory
                    /\ m.handlerFactory_ = handlerFactory_
               ELSE m = M

\* Two records, one with a stream, and the handler of the caller, active between
\* the handlers of the two.
C8_SwapWithRecords ==
    /\ Len(factoryHandlers_) = 2
    /\ \E i \in 1..2 : factoryHandlers_[i].stream # NullObj
    /\ Len(activeHandlers_) = 3
    /\ activeHandlers_[2] = UserHandler

\* The level that the filter of active handler i gives the category.
ResolvedBy(i, category) == HandlerLevel(heap[activeHandlers_[i]].cfg, category)

(***************************************************************************)
(* C9: logEnabled(level, category) is true exactly when some active        *)
(* handler resolves the category to a level <= level, for the levels       *)
(* TRACE < INFO < WARN < ERROR < PANIC; a handler that resolves it to ALL  *)
(* enables every level, handlers that resolve it to NONE enable none, and  *)
(* without active handlers it is false for every level.                    *)
(***************************************************************************)
C9_EnabledIffSomeHandler ==
    /\ LOG_LEVEL_TRACE < LOG_LEVEL_INFO /\ LOG_LEVEL_INFO < LOG_LEVEL_WARN
    /\ LOG_LEVEL_WARN < LOG_LEVEL_ERROR /\ LOG_LEVEL_ERROR < LOG_LEVEL_PANIC
    /\ \A level \in MessageLevels, category \in Categories :
           \A enabled \in {logEnabledOp(M, level, category)} :
               /\ enabled <=>
                      \E i \in 1..Len(activeHandlers_) : ResolvedBy(i, category) <= level
               /\ (\E i \in 1..Len(activeHandlers_) :
                       ResolvedBy(i, category) = LOG_LEVEL_ALL) => enabled
               /\ (\A i \in 1..Len(activeHandlers_) :
                       ResolvedBy(i, category) = LOG_LEVEL_NONE) => ~enabled
               /\ activeHandlers_ = <<>> => ~enabled

\* Three handlers are active; for one category one of them resolves to NONE and
\* another to ALL, for another category a level is enabled by the last handler
\* alone.
C9_HandlersDisagree ==
    /\ Len(activeHandlers_) = 3
    /\ \E category \in Categories :
           \E i, j \in 1..Len(activeHandlers_) :
               /\ ResolvedBy(i, category) = LOG_LEVEL_NONE
               /\ ResolvedBy(j, category) = LOG_LEVEL_ALL
    /\ \E category \in Categories, level \in MessageLevels :
           /\ ResolvedBy(3, category) = level
           /\ \A i \in 1..2 : ResolvedBy(i, category) > level

(***************************************************************************)
(* C10: logMessage and logWrite call message and write once on every       *)
(* active handler, in the order of registration, addHandler and            *)
(* addFactoryHandler both appending; no handler is twice among the active  *)
(* handlers; addHandler of a registered handler returns failure and        *)
(* changes nothing.                                                        *)
(***************************************************************************)
C10_DispatchInOrder ==
    /\ \A i, j \in 1..Len(activeHandlers_) : activeHandlers_[i] = activeHandlers_[j] => i = j
    /\ logMessageOp(M) =
           [M EXCEPT !.ev = [i \in 1..Len(activeHandlers_) |->
                                Event("message", activeHandlers_[i], "handler")]]
    /\ logWriteOp(M) =
           [M EXCEPT !.ev = [i \in 1..Len(activeHandlers_) |->
                                Event("write", activeHandlers_[i], "handler")]]
    /\ \A appended \in BOOLEAN :
           \A r \in {addHandlerOp(M, UserHandler, appended)} :
               /\ UserHandler \in Range(activeHandlers_) => (~r.ret /\ r.m = M)
               /\ r.ret => r.m.activeHandlers_ = Append(activeHandlers_, UserHandler)
    /\ \A c \in AddCalls :
           \A r \in {AddOf(c)} :
               r.ret =>
                   r.m.activeHandlers_ =
                       Append(IF HasId(M, c.id)
                              THEN Without(activeHandlers_, RecordOf(M, c.id).handler)
                              ELSE activeHandlers_,
                              RecordOf(r.m, c.id).handler)

\* Three handlers are active, the one of the caller registered second.
C10_ThreeActive ==
    /\ Len(activeHandlers_) = 3
    /\ activeHandlers_[2] = UserHandler
    /\ activeHandlers_[1] > activeHandlers_[3]

(***************************************************************************)
(* C11: an addHandler call that takes the active handlers from none to one *)
(* registers the dispatch functions as the platform callbacks, and a       *)
(* removeHandler call that takes them from one to none registers the null  *)
(* set; an addHandler or removeHandler call that fails or does not cross   *)
(* that boundary leaves the registration as it is.                         *)
(***************************************************************************)
C11_CallbacksAtBoundary ==
    /\ \A appended \in BOOLEAN :
           \A r \in {addHandlerOp(M, UserHandler, appended)} :
               IF r.ret /\ activeHandlers_ = <<>>
               THEN r.m.callbacks = "set" /\ Len(r.m.activeHandlers_) = 1
               ELSE r.m.callbacks = callbacks
    /\ \A m \in {removeHandlerOp(M, UserHandler)} :
           IF activeHandlers_ = <<UserHandler>>
           THEN m.callbacks = "null" /\ m.activeHandlers_ = <<>>
           ELSE m.callbacks = callbacks

\* The handler of the caller was registered as the first, which set the
\* callbacks, and is then the first of two active handlers.
C11_RegisteredFirst ==
    /\ Len(activeHandlers_) = 2
    /\ activeHandlers_[1] = UserHandler
    /\ callbacks = "set"

\* State m as the next operation finds it: no call made yet.
AtStart(m) == [m EXCEPT !.ev = <<>>, !.used = {o \in Pool : m.heap[o].kind # "free"}]

\* The calls of addFactoryHandler that state m admits, and what call c does there.
AddCallsIn(m) ==
    {c \in [id : Ids, handlerType : HandlerTypes, streamType : StreamTypes,
            fail : FailPoints] :
        AddInput(m, c.id, c.handlerType, c.streamType, c.fail)}

\* The ids that the callback of enumFactoryHandlers is given in state m, in order.
Visited(m) ==
    LET ev == enumFactoryHandlersOp(AtStart(m)).ev
    IN  [i \in 1..Len(ev) |-> ev[i].by]

(***************************************************************************)
(* C12: enumFactoryHandlers calls the callback once for each factory       *)
(* record and for nothing else, in the order of the records; after "h1"    *)
(* and then "h2" were added to the empty manager, the ids visited are      *)
(* "h1", "h2".                                                             *)
(***************************************************************************)
C12_EnumVisitsRecords ==
    /\ enumFactoryHandlersOp(M) =
           [M EXCEPT !.ev = [i \in 1..Len(factoryHandlers_) |->
                                Event("callback", NullObj, factoryHandlers_[i].id)]]
    /\ (activeHandlers_ = <<>> /\ factoryHandlers_ = <<>>) =>
           \A c1 \in AddCalls :
               \A r1 \in {AddOf(c1)} :
                   (c1.id = "h1" /\ r1.ret) =>
                       \A c2 \in AddCallsIn(AtStart(r1.m)) :
                           \A r2 \in {AddIn(AtStart(r1.m), c2)} :
                               (c2.id = "h2" /\ r2.ret) => Visited(r2.m) = <<"h1", "h2">>

\* The records "h1" and "h2" exist, in this order.
C12_TwoRecordsInOrder ==
    /\ Len(factoryHandlers_) = 2
    /\ factoryHandlers_[1].id = "h1"
    /\ factoryHandlers_[2].id = "h2"

(***************************************************************************)
(* What the filters say, read off the arguments alone.                     *)
(***************************************************************************)
\* Category p is c or a prefix of c that ends where a '.' of c follows.
IsDotPrefix(p, c) ==
    /\ Len(p) > 0
    /\ Len(p) <= Len(c)
    /\ SubSeq(c, 1, Len(p)) = p
    /\ Len(p) < Len(c) => c[Len(p) + 1] = Dot

\* The filters whose category is such a prefix of c.
Matching(filters, c) ==
    IF c = NullStr THEN {}
    ELSE {i \in 1..Len(filters) : IsDotPrefix(filters[i].cat, c)}

\* The level of the last filter among those with the longest matching category,
\* or the default level.
Expected(level, filters, c) ==
    LET m == Matching(filters, c)
    IN  IF m = {} THEN level
        ELSE LET i == CHOOSE k \in m :
                          \A j \in m :
                              \/ Len(filters[j].cat) < Len(filters[k].cat)
                              \/ Len(filters[j].cat) = Len(filters[k].cat) /\ j <= k
             IN  filters[i].level

\* The nodes a tree of these filters has: one for each category and each
\* '.'-bounded prefix of one.
NodesOf(filters) ==
    {p \in UNION {{SubSeq(filters[i].cat, 1, k) : k \in 1..Len(filters[i].cat)} :
                     i \in 1..Len(filters)} :
        \E i \in 1..Len(filters) : IsDotPrefix(p, filters[i].cat)}

\* An allocation fails while the constructor runs with these arguments.
AllocationFails(args) ==
    \/ ~args.reserveOk
    \/ args.budget >= 0 /\ args.budget < Cardinality(NodesOf(args.filters))

(***************************************************************************)
(* C13: for a tree built from a default level and filters, level(c) is the *)
(* level of the filter whose category is the longest '.'-segment prefix of *)
(* c, the last such filter if several have that category, and the default *)
(* level if no filter category is such a prefix; a category that extends a *)
(* filtered one with no filter in between resolves to the same level.  For *)
(* [a:ERROR, a.b.c:TRACE, a.b.x:TRACE, aa:ERROR, aa.b:WARN] and default    *)
(* NONE: a, a.b -> ERROR; a.b.c, a.b.c.d -> TRACE; aa.b -> WARN; z -> NONE.*)
(***************************************************************************)
C13_LongestPrefixWins ==
    (filterPc \in {"built", "asked"} /\ ~AllocationFails(filterArgs)) =>
        /\ filterPc = "asked" =>
               resolved.level =
                   Expected(filterArgs.level, filterArgs.filters, resolved.category)
        /\ \A c1, c2 \in QueryCats \ {NullStr} :
               (/\ IsDotPrefix(c2, c1)
                /\ \E i \in 1..Len(filterArgs.filters) : filterArgs.filters[i].cat = c2
                /\ \A i \in Matching(filterArgs.filters, c1) :
                       Len(filterArgs.filters[i].cat) <= Len(c2)) =>
                   FilterLevel(filter, c1) = FilterLevel(filter, c2)
        /\ (filterArgs.filters = ScenarioFilters /\ filterArgs.level = LOG_LEVEL_NONE) =>
               /\ FilterLevel(filter, CatA) = LOG_LEVEL_ERROR
               /\ FilterLevel(filter, CatAB) = LOG_LEVEL_ERROR
               /\ FilterLevel(filter, <<"a", ".", "b", ".", "c">>) = LOG_LEVEL_TRACE
               /\ FilterLevel(filter, <<"a", ".", "b", ".", "c", ".", "d">>) = LOG_LEVEL_TRACE
               /\ FilterLevel(filter, <<"a", "a", ".", "b">>) = LOG_LEVEL_WARN
               /\ FilterLevel(filter, CatZ) = LOG_LEVEL_NONE

\* level("a.b.c.d") was called on the tree of the five filters and returned TRACE.
C13_Inherited ==
    /\ filterPc = "asked"
    /\ ~AllocationFails(filterArgs)
    /\ filterArgs.filters = ScenarioFilters
    /\ filterArgs.level = LOG_LEVEL_NONE
    /\ resolved.category = <<"a", ".", "b", ".", "c", ".", "d">>
    /\ resolved.level = LOG_LEVEL_TRACE

(***************************************************************************)
(* C14: for every tree the constructor produces, whatever the filters and  *)
(* whether or not an allocation failed, level("") and level(null) return   *)
(* the default level that the constructor was given.                       *)
(***************************************************************************)
C14_EmptyCategoryGivesDefault ==
    (filterPc = "asked" /\ resolved.category \in {<<>>, NullStr}) =>
        resolved.level = filterArgs.level

(***************************************************************************)
(* C14, amended: for every tree the constructor produces without an        *)
(* allocation failure, level("") and level(null) return the default level  *)
(* that the constructor was given; after an allocation failure they return *)
(* the fallback level NONE.                                                *)
(***************************************************************************)
C14_EmptyCategoryGivesDefaultOrFallback ==
    (filterPc = "asked" /\ resolved.category \in {<<>>, NullStr}) =>
        resolved.level =
            IF AllocationFails(filterArgs) THEN LOG_LEVEL_NONE ELSE filterArgs.level

\* level("") was called on a tree with nodes, and on one whose construction
\* failed at a node insertion it returned NONE, not the level given.
C14_AskedEmptyCategory ==
    /\ filterPc = "asked"
    /\ resolved.category = <<>>
    /\ filterArgs.reserveOk
    /\ AllocationFails(filterArgs)
    /\ filterArgs.level = LOG_LEVEL_INFO
    /\ resolved.level = LOG_LEVEL_NONE

(***************************************************************************)
(* C15: if a node insertion or the reservation of the category store fails *)
(* while the tree is built, the finished tree has no nodes, and level()    *)
(* returns one and the same fallback level for every category: a tree that *)
(* holds only some of the filters is never seen through level().           *)
(***************************************************************************)
C15_FailedBuildHasNoNodes ==
    (filterPc \in {"built", "asked"} /\ AllocationFails(filterArgs)) =>
        /\ filter.nodes = <<>>
        /\ filter.roots = <<>>
        /\ \A c \in QueryCats : FilterLevel(filter, c) = LOG_LEVEL_NONE
        /\ filterPc = "asked" => resolved.level = LOG_LEVEL_NONE

\* The insertion of the second node failed, and level() of the first filter's
\* category returned the fallback level, not the level of that filter.
C15_FailedAfterFirstNode ==
    /\ filterPc = "asked"
    /\ filterArgs.reserveOk
    /\ filterArgs.budget = 1
    /\ AllocationFails(filterArgs)
    /\ Len(filterArgs.filters) = 2
    /\ resolved.category = filterArgs.filters[1].cat
    /\ resolved.level = LOG_LEVEL_NONE

(***************************************************************************)
(* Requests and their configuration errors.                                *)
(***************************************************************************)
\* The type that a hnd or strm field names, and the level names of a request.
TypeNamed(field) ==
    IF field = <<>> THEN EmptyString
    ELSE parseObject(field[1], 1, NoRequest.handler).type

KnownLevel(name) == \E i \in DOMAIN LevelNames : LevelNames[i].name = name

LevelNamesOf(q) ==
    {q.lvl[i] : i \in 1..Len(q.lvl)} \cup
    {mem.value : mem \in UNION {UNION {Range(q.filt[i][j].members) :
                                          j \in 1..Len(q.filt[i])} :
                                  i \in 1..Len(q.filt)} \cap
                          {Member("lvl", n) : n \in {"all", "none", "verbose"}}}

\* A type the factory in force produces nothing for.
UnknownHandlerType(c) ==
    /\ c.q.hnd # <<>>
    /\ \/ /\ handlerFactory_ = DefaultLogHandlerFactory
          /\ TypeNamed(c.q.hnd) \notin {"StreamLogHandler", "JSONStreamLogHandler"}
       \/ handlerFactory_ = CustomHandlerFactory /\ c.fail = "handler"

UnknownStreamType(c) ==
    /\ c.q.strm # <<>>
    /\ \/ /\ streamFactory_ = DefaultOutputStreamFactory
          /\ TypeNamed(c.q.strm) \notin {"Serial", "Serial1"}
       \/ streamFactory_ = CustomStreamFactory /\ c.fail = "stream"

NoId(q) == q.id = <<>> \/ q.id = <<"">>

ConfigurationError(c) ==
    \/ c.q.cmd \notin {<<"addHandler">>, <<"removeHandler">>, <<"enumHandlers">>}
    \/ c.q.cmd = <<"addHandler">> /\ (UnknownHandlerType(c) \/ UnknownStreamType(c))
    \/ \E n \in LevelNamesOf(c.q) : ~KnownLevel(n)
    \/ c.q.cmd \in {<<"addHandler">>, <<"removeHandler">>} /\ NoId(c.q)

\* The calls of process with a request that parsed to an object.
RequestCalls == {c \in ProcessCalls : c.q # NullValue}

(***************************************************************************)
(* C16: process returns failure for every request with a configuration     *)
(* error: a missing or unknown cmd, an unknown handler type, an unknown    *)
(* stream type, an unknown level name (lvl or a filter's lvl), or an empty *)
(* or missing id on an addHandler or removeHandler command.                *)
(***************************************************************************)
C16_ConfigurationErrorsFail ==
    \A c \in RequestCalls :
        ConfigurationError(c) => \A r \in {ProcessOf(c)} : r.ret = FALSE

\* C16 without the removeHandler command: every other configuration error is
\* answered with failure.
C16_ErrorsButRemoveFail ==
    \A c \in RequestCalls :
        (ConfigurationError(c) /\ c.q.cmd # <<"removeHandler">>) =>
            \A r \in {ProcessOf(c)} : r.ret = FALSE

\* A removeHandler request without an id, or with an empty one, is answered
\* with success while a record is stored.
C16_RemoveWithoutId ==
    /\ Len(factoryHandlers_) = 1
    /\ \E c \in RequestCalls :
           /\ c.q.cmd = <<"removeHandler">> /\ c.q.id = <<"">> /\ c.q.lvl = <<>>
           /\ ProcessOf(c).ret = TRUE
           /\ ProcessOf(c).m.factoryHandlers_ = factoryHandlers_
    /\ \E c \in RequestCalls :
           /\ c.q.cmd = <<"removeHandler">> /\ c.q.id = <<>> /\ c.q.lvl = <<>>
           /\ ProcessOf(c).ret = TRUE

(***************************************************************************)
(* Parameters of a request.                                                *)
(***************************************************************************)
\* The values that a hnd or strm field gives under the key.
Under(field, key) ==
    {mem.value : mem \in {x \in UNION {Range(field[i].members) : i \in 1..Len(field)} :
                             x.name = key}}

\* The further arguments of the calls of e in ev.
ArgsOf(ev, e) == {ev[i].args : i \in CallsOf(ev, e)}

\* The addHandler calls of process that name parameters under the key in both
\* hnd and strm.
CallsWith(key) ==
    {c \in RequestCalls :
        /\ c.q.cmd = <<"addHandler">>
        /\ Under(c.q.hnd, key) # {} /\ Under(c.q.strm, key) # {}}

(***************************************************************************)
(* C17: in an addHandler request the object under the field param of hnd   *)
(* is what the handler factory is given as its parameters, and the object  *)
(* under param of strm is what the stream factory is given; a baud placed  *)
(* in strm.param is the rate the serial port is begun with.                *)
(***************************************************************************)
C17_ParamReachesFactories ==
    \A c \in CallsWith("param") :
        \A r \in {ProcessOf(c)} :
            /\ \A a \in ArgsOf(r.m.ev, "createHandler") : a[1] \in Under(c.q.hnd, "param")
            /\ \A a \in ArgsOf(r.m.ev, "createStream") : a[1] \in Under(c.q.strm, "param")
            /\ \A a \in ArgsOf(r.m.ev, "begin") : a = <<Baud>>

\* C17 with the key params in place of param: those objects are what the
\* factories are given.
C17_ParamsReachFactories ==
    \A c \in CallsWith("params") :
        \A r \in {ProcessOf(c)} :
            /\ \A a \in ArgsOf(r.m.ev, "createHandler") : a[1] \in Under(c.q.hnd, "params")
            /\ \A a \in ArgsOf(r.m.ev, "createStream") : a[1] \in Under(c.q.strm, "params")
            /\ \A a \in ArgsOf(r.m.ev, "begin") : a = <<Baud>>

\* A request with a baud under strm.param and hnd.param is processed by the
\* default factories after a handler of the caller was added: both are called, the handler is added, and the port is
\* begun with the default rate.
C17_BaudUnderParam ==
    /\ handlerFactory_ = DefaultLogHandlerFactory
    /\ streamFactory_ = DefaultOutputStreamFactory
    /\ activeHandlers_ = <<UserHandler>>
    /\ \E c \in CallsWith("param") :
           \E r \in {ProcessOf(c)} :
               /\ r.ret = TRUE
               /\ ArgsOf(r.m.ev, "createStream") = {<<NullValue>>}
               /\ ArgsOf(r.m.ev, "createHandler") = {<<NullValue>>}
               /\ ArgsOf(r.m.ev, "begin") = {<<DefaultBaud>>}

(***************************************************************************)
(* Threads.                                                                *)
(***************************************************************************)
MembersOf(m) == <<m.activeHandlers_, m.factoryHandlers_, m.handlerFactory_,
                  m.streamFactory_, m.callbacks, m.heap>>

\* Records and active handlers agree: the handler of every record is alive and
\* active, and every active handler but the caller's is that of a record.
Consistent(m) ==
    /\ \A i \in 1..Len(m.factoryHandlers_) :
           /\ m.factoryHandlers_[i].handler \in Range(m.activeHandlers_)
           /\ m.heap[m.factoryHandlers_[i].handler].kind = "handler"
           /\ m.heap[m.factoryHandlers_[i].handler].alive
    /\ \A h \in Range(m.activeHandlers_) :
           h = UserHandler \/ \E i \in 1..Len(m.factoryHandlers_) :
                                  m.factoryHandlers_[i].handler = h

\* The handlers that the operation of thread t invokes.
Invoked(t) ==
    {e.obj : e \in {x \in Range(FullOf(held[t].c, held[t].m).ev) :
                       x.e \in {"message", "write"}}}

(***************************************************************************)
(* C18: with dispatches and mutations called by threads in any order, an   *)
(* operation runs under the mutex as if in one step: while a thread is in  *)
(* the block of an operation no other thread is in one, and the members    *)
(* are what its own operation made of those it found; a dispatch finds     *)
(* records and active handlers in agreement (every record's handler        *)
(* active, every active factory handler with its record) and invokes only  *)
(* handlers that are alive.                                                *)
(***************************************************************************)
C18_OperationsAtomic ==
    \A t \in Threads :
        pc[t] = "locked" =>
            /\ mutex_ = t
            /\ \A u \in Threads \ {t} : pc[u] # "locked"
            /\ MembersOf(M) = MembersOf(HalfOf(held[t].c, held[t].m))
            /\ held[t].c.kind \in Dispatches =>
                   /\ Consistent(M)
                   /\ \A h \in Invoked(t) : heap[h].alive /\ heap[h].kind \in {"handler", "user"}

\* A thread is in the middle of removeFactoryHandler, the record stored and its
\* handler destroyed, while the other thread waits for the mutex.
C18_WaitsForRemoval ==
    /\ pc[1] = "locked" /\ held[1].c.kind = "removeFactoryHandler"
    /\ Len(factoryHandlers_) = 1 /\ ~Consistent(M)
    /\ ~heap[factoryHandlers_[1].handler].alive
    /\ pc[2] = "waiting"

\* The mutex is held by a thread inside a block, which is not waiting for it
\* again, and by no thread that has returned; the functions called inside a
\* block take no mutex; threads wait only while one of them can go on.
MutexHeldInBlock ==
    /\ \A c \in LockCalls : \A f \in CalledUnderLock(c.kind) : ~Locks(f)
    /\ mutex_ # NoThread => pc[mutex_] = "locked"
    /\ \A t \in Threads : pc[t] = "locked" => mutex_ = t
    /\ (\E t \in Threads : pc[t] = "waiting") =>
           \E t \in Threads : ENABLED lock(t) \/ pc[t] = "locked"

(***************************************************************************)
(* C19: no operation calls, inside its block, an operation that takes the  *)
(* mutex, and the mutex is released on every way out of a block, the early *)
(* returns included; so the mutex is only ever held by a thread that is    *)
(* running a block, no state is a deadlock, and under fair scheduling a    *)
(* thread that waits for the mutex gets into its block.                    *)
(***************************************************************************)
C19_NoDeadlockFairProgress ==
    /\ []MutexHeldInBlock
    /\ \A t \in Threads : (pc[t] = "waiting") ~> (pc[t] = "locked")

\* A thread is in the block of an addFactoryHandler that returns early, for an
\* empty id, while the other thread waits for the mutex.
C19_WaitsForEarlyReturn ==
    /\ pc[1] = "locked" /\ mutex_ = 1
    /\ held[1].c.kind = "addFactoryHandler" /\ held[1].c.id = ""
    /\ ~AddIn(held[1].m, held[1].c).ret
    /\ pc[2] = "waiting"

(***************************************************************************)
(* Ownership.                                                              *)
(***************************************************************************)
\* The objects passed to a factory's destroy operation in ev.
Destroyed(ev) ==
    {ev[i].obj : i \in CallsOf(ev, "destroyHandler") \cup CallsOf(ev, "destroyStream")}

\* The handlers and streams that the records of m refer to.
Recorded(m) ==
    ({m.factoryHandlers_[i].handler : i \in 1..Len(m.factoryHandlers_)} \cup
     {m.factoryHandlers_[i].stream : i \in 1..Len(m.factoryHandlers_)}) \ {NullObj}

\* What the operations that may destroy make of the members: removeHandler, and
\* the operations other than removeHandler.
AfterRemoveHandler == {removeHandlerOp(M, UserHandler)}

AfterOthers ==
    {AddOf(c).m : c \in AddCalls}
    \cup {removeFactoryHandlerOp(M, id) : id \in Ids}
    \cup {setHandlerFactoryOp(M, factory) : factory \in HandlerFactories}
    \cup {setStreamFactoryOp(M, factory) : factory \in StreamFactories}
    \cup {teardownOp(M)}

\* The caller's handler is not destroyed by m, and stays active if it was.
CallerHandlerKept(m) ==
    /\ UserHandler \notin Destroyed(m.ev)
    /\ m.heap[UserHandler] = heap[UserHandler]
    /\ UserHandler \in Range(activeHandlers_) => UserHandler \in Range(m.activeHandlers_)

(***************************************************************************)
(* C20: the manager never destroys a handler registered through            *)
(* addHandler: in removeHandler, removeFactoryHandler, addFactoryHandler,  *)
(* setHandlerFactory, setStreamFactory and teardown only handlers and      *)
(* streams that factory records refer to are passed to a factory's destroy *)
(* operation, and the caller's handler stays active until removeHandler is *)
(* called for it.                                                          *)
(***************************************************************************)
C20_OnlyRecordedDestroyed ==
    /\ \A m \in AfterRemoveHandler :
           Destroyed(m.ev) = {} /\ m.heap[UserHandler] = heap[UserHandler]
    /\ \A m \in AfterOthers :
           CallerHandlerKept(m) /\ Destroyed(m.ev) \subseteq Recorded(M)

\* C20 with the objects that a failing addFactoryHandler created itself: they
\* too are passed to destroy, when the call gives them up.
C20_OnlyRecordedOrOwnDestroyed ==
    /\ \A m \in AfterRemoveHandler :
           Destroyed(m.ev) = {} /\ m.heap[UserHandler] = heap[UserHandler]
    /\ \A m \in AfterOthers :
           CallerHandlerKept(m) /\ Destroyed(m.ev) \subseteq Recorded(M) \cup MadeIn(m)

\* The caller's handler is active beside a factory handler with its stream; a
\* change of the handler factory destroys both of these and leaves the caller's
\* handler, and an addFactoryHandler whose handler type is unknown destroys the
\* stream it created.
C20_CallerBesideFactoryHandler ==
    /\ UserHandler \in Range(activeHandlers_)
    /\ Len(factoryHandlers_) = 1
    /\ \E factory \in HandlerFactories :
           \E m \in {setHandlerFactoryOp(M, factory)} :
               /\ Destroyed(m.ev) = Recorded(M) /\ Cardinality(Recorded(M)) = 2
               /\ m.activeHandlers_ = <<UserHandler>>
    /\ \E c \in AddCalls :
           \E r \in {AddOf(c)} :
               /\ r.path = "handler" /\ c.id # factoryHandlers_[1].id
               /\ Destroyed(r.m.ev) # {} /\ Destroyed(r.m.ev) \subseteq MadeIn(r.m)

(***************************************************************************)
(* The order of siblings, stated on the texts alone.                       *)
(***************************************************************************)
\* Segment a sorts before segment b: at the first byte where they differ
\* within the shorter length a has the smaller byte, or there is no such
\* byte and a is the shorter one.
SegmentBefore(a, b) ==
    LET d == {i \in 1..Min(a.size, b.size) : a.name[i] # b.name[i]}
    IN  IF d = {} THEN a.size < b.size
        ELSE LET i == CHOOSE k \in d : \A j \in d : k <= j
             IN  Code(a.name[i]) < Code(b.name[i])

\* Same length and content.
SameSegment(a, b) == a.size = b.size /\ a.name = b.name

\* An Array<Node> is strictly increasing.
StrictlyIncreasing(arr) ==
    \A i, j \in 1..Len(arr) : i < j => SegmentBefore(arr[i], arr[j])

\* The root set and the children of every node are strictly increasing, and
\* no two siblings have the same text.
SiblingsSorted(t) ==
    \A p \in 0..Len(t.nodes) :
        \A arr \in {NodesAt(t, p)} :
            /\ StrictlyIncreasing(arr)
            /\ \A i, j \in 1..Len(arr) : i # j => ~SameSegment(arr[i], arr[j])

\* The segments the binary search is asked for.
SearchNames ==
    {<<"a">>, <<"a", "a">>, <<"a", "b">>, <<"b">>, <<"c">>, <<"d">>, <<"x">>, <<"z">>}

\* nodeIndex on every sibling set of the tree: found exactly when a sibling has
\* the segment, and otherwise the index where inserting it keeps the set sorted.
SearchExact(t) ==
    \A p \in 0..Len(t.nodes) : \A name \in SearchNames :
        \A arr \in {NodesAt(t, p)} :
            \A r \in {nodeIndex(arr, name, Len(name))} :
                /\ r.found <=> \E i \in 1..Len(arr) : SameSegment(arr[i], Node(name, Len(name)))
                /\ r.index \in 0..Len(arr)
                /\ ~r.found =>
                       StrictlyIncreasing(InsertAt(arr, r.index, Node(name, Len(name))))

\* The local array nodes of the constructor (line 374) after this many node
\* insertions.
LocalNodes(filters, inserted) ==
    AddFiltersInPlace([nodes |-> <<>>, roots |-> <<>>], filters, 1, inserted).t

(***************************************************************************)
(* C21: while the constructor builds the tree and after it has built it,   *)
(* the root set and the children of every node are strictly increasing     *)
(* under the comparison "byte-wise over the shorter length, and on an      *)
(* equal common prefix the shorter segment first", so no two siblings have *)
(* the same text; the binary search reports found exactly when a sibling   *)
(* with the same length and content exists, and otherwise returns the      *)
(* index at which inserting keeps the set sorted.                          *)
(***************************************************************************)
C21_SiblingsSortedSearchExact ==
    /\ (filterPc = "args" /\ filterArgs.reserveOk) =>
           \A b \in 0..Cardinality(NodesOf(filterArgs.filters)) :
               \A t \in {LocalNodes(filterArgs.filters, b)} :
                   SiblingsSorted(t) /\ SearchExact(t)
    /\ filterPc \in {"built", "asked"} => SiblingsSorted(filter) /\ SearchExact(filter)

\* The tree of the five filters is built: its roots are a and aa, a segment
\* and one that extends it, aa is found at index 1 and ab, which no root
\* has, belongs at index 2.
C21_PrefixSiblings ==
    /\ filterPc = "built"
    /\ filterArgs.filters = ScenarioFilters
    /\ ~AllocationFails(filterArgs)
    /\ Len(filter.roots) = 2
    /\ SegmentBefore(NodesAt(filter, 0)[1], NodesAt(filter, 0)[2])
    /\ nodeIndex(NodesAt(filter, 0), <<"a", "a">>, 2) = [index |-> 1, found |-> TRUE]
    /\ nodeIndex(NodesAt(filter, 0), <<"a", "b">>, 2) = [index |-> 2, found |-> FALSE]

(***************************************************************************)
(* The registration of the platform callbacks.                             *)
(***************************************************************************)
\* The dispatch functions are registered exactly when a handler is active.
CallbacksIffActive(m) == (m.callbacks = "set") <=> (m.activeHandlers_ # <<>>)

(***************************************************************************)
(* C22: in every state reached by addHandler, removeHandler,               *)
(* addFactoryHandler, removeFactoryHandler, setHandlerFactory and          *)
(* setStreamFactory calls, the manager's dispatch functions are registered *)
(* as the platform callbacks if and only if the set of active handlers is  *)
(* not empty: a handler made active by addFactoryHandler receives the      *)
(* platform's log events, and no callbacks stay registered once the last   *)
(* active handler is gone.                                                 *)
(***************************************************************************)
C22_CallbacksIffActive == ~destructed => CallbacksIffActive(M)

\* addFactoryHandler made a handler active on a manager that had none, and no
\* callbacks are registered.
C22_ActiveWithoutCallbacks ==
    /\ ~destructed
    /\ Len(factoryHandlers_) = 1
    /\ activeHandlers_ = <<factoryHandlers_[1].handler>>
    /\ callbacks = "null"

(***************************************************************************)
(* Streams of the default stream factory.                                  *)
(***************************************************************************)
\* The streams passed to destroyStream in ev.
StreamsDestroyed(ev) == {ev[i].obj : i \in CallsOf(ev, "destroyStream")}

\* What removing a record, and adding or replacing one, make of the members.
AfterRemoveOrAdd ==
    {removeFactoryHandlerOp(M, id) : id \in Ids} \cup {AddOf(c).m : c \in AddCalls}

\* The records of the state that m still has.
RecordsKept(m) == Range(factoryHandlers_) \cap Range(m.factoryHandlers_)

(***************************************************************************)
(* C23: with the default stream factory, a stream that is bound to the     *)
(* handler of a live factory record is never destroyed (ended) while that  *)
(* record exists: removing or replacing one record does not destroy the    *)
(* stream that a different record uses, also when both records were        *)
(* created with the same stream type.                                      *)
(***************************************************************************)
C23_LiveStreamNotDestroyed ==
    (~destructed /\ streamFactory_ = DefaultOutputStreamFactory) =>
        /\ \A h \in Range(factoryHandlers_) : h.stream # NullObj => heap[h.stream].alive
        /\ \A m \in AfterRemoveOrAdd :
               \A h \in RecordsKept(m) : h.stream \notin StreamsDestroyed(m.ev)

\* Two records were created with stream type "Serial1", one of them was
\* removed, and the other one's stream has been ended.
C23_StreamEndedUnderRecord ==
    /\ ~destructed
    /\ streamFactory_ = DefaultOutputStreamFactory
    /\ Len(factoryHandlers_) = 1
    /\ factoryHandlers_[1].stream = Serial1
    /\ factoryHandlers_[1].handler \in Range(activeHandlers_)
    /\ ~heap[Serial1].alive

(***************************************************************************)
(* The order in which a handler and its stream are destroyed.              *)
(***************************************************************************)
\* The stream that the call with log ev created, if it created one.
StreamMadeIn(ev) ==
    IF Made(ev, "createStream") = {} THEN NullObj
    ELSE CHOOSE s \in Made(ev, "createStream") : TRUE

\* The handlers with the stream bound to each: those of the records of the
\* state, and the handler that the call with log ev created.
Bound(ev) ==
    {<<h.handler, h.stream>> : h \in Range(factoryHandlers_)}
        \cup {<<h, StreamMadeIn(ev)>> : h \in Made(ev, "createHandler")}

\* In the operation that ends in m, handler b[1] with stream b[2] is taken
\* from the active set if it was in it, then destroyed, and the call that
\* destroys its stream is the next one; a stream that a factory allocated
\* has not been destroyed before.
DestroyedInOrder(m, b) ==
    \A j \in Calls(m.ev, "destroyHandler", b[1]) :
        /\ b[1] \in Range(activeHandlers_) =>
               \E i \in Calls(m.ev, "removeOne", b[1]) : i < j
        /\ b[1] \notin Range(m.activeHandlers_)
        /\ b[2] # NullObj =>
               /\ j < Len(m.ev)
               /\ m.ev[j + 1].e = "destroyStream" /\ m.ev[j + 1].obj = b[2]
               /\ b[2] \notin Static =>
                      \A k \in Calls(m.ev, "destroyStream", b[2]) : k > j

Dispatched(m) ==
    LET ev == logMessageOp(AtStart(m)).ev
    IN  [i \in 1..Len(ev) |-> ev[i].obj]

(***************************************************************************)
(* C25: a successful addFactoryHandler that replaces an existing id does   *)
(* not keep the old position: afterwards the record with that id is the    *)
(* last one in the order of enumFactoryHandlers and its handler is the     *)
(* last one in dispatch order, while the relative order of all other       *)
(* records and active handlers is unchanged.                               *)
(***************************************************************************)
C25_ReplacedMovesToEnd ==
    \A c \in AddCalls :
        \A r \in {AddOf(c)} :
            (r.ret /\ HasId(M, c.id)) =>
                \A ids \in {Visited(r.m)} : \A hs \in {Dispatched(r.m)} :
                    /\ ids # <<>> /\ ids[Len(ids)] = c.id
                    /\ TakeLast(ids) = SelectSeq(Visited(M), LAMBDA x : x # c.id)
                    /\ hs # <<>> /\ hs[Len(hs)] = RecordOf(r.m, c.id).handler
                    /\ hs[Len(hs)] \in Made(r.m.ev, "createHandler")
                    /\ TakeLast(hs) = Without(Dispatched(M), RecordOf(M, c.id).handler)

\* The first of two records, whose handler is dispatched to before the
\* caller's handler and the other record's, is replaced: its id is then
\* enumerated last and its new handler is the last one dispatched to.
C25_FirstRecordReplaced ==
    /\ Len(factoryHandlers_) = 2
    /\ Len(activeHandlers_) = 3
    /\ activeHandlers_[1] = factoryHandlers_[1].handler
    /\ activeHandlers_[2] = UserHandler
    /\ \E c \in AddCalls : \E r \in {AddOf(c)} :
           /\ r.ret
           /\ c.id = factoryHandlers_[1].id
           /\ Visited(r.m) = <<factoryHandlers_[2].id, c.id>>
           /\ Dispatched(r.m) = <<UserHandler, factoryHandlers_[2].handler,
                                   RecordOf(r.m, c.id).handler>>

=============================================================================
